---- MODULE Spec2Model ----
(***************************************************************************)
(* Transcription job engine of kefi-notetaker                              *)
(* (backend/services/transcription_job_service.py) together with the part  *)
(* of the note service it calls (replace_marker, resolve_note_path).       *)
(*                                                                         *)
(* Granularity: one action per critical section of the engine lock         *)
(* (`with self._lock:` block) and one per call made outside the lock       *)
(* (Transcriber, replace_marker, cleanup_temp_file after the run).  Every  *)
(* state of the model is therefore a state in which the engine lock is     *)
(* free.  A process restart may happen between any two such steps.         *)
(*                                                                         *)
(* Time is a bounded integer clock; delays and the history TTL are         *)
(* expressed in clock ticks.                                               *)
(***************************************************************************)
EXTENDS Integers, Sequences, FiniteSets, TLC

\* ------------------------------------------------------------------ bounds
MaxJobs == 2         \* job ids ever handed out by create_job (uuid4 is fresh)
WorkerSlots == 2     \* worker threads started by _start_workers
MaxTime == 2         \* the clock stops advancing here
MaxAttempts == 2     \* leases per job explored (attempts grows on every lease)

JobIds == 1..MaxJobs
Workers == 0..(WorkerSlots - 1)
Times == 0..MaxTime

NoJob == 0           \* the None returned by _next_queued_job_locked

MaxNotes == 2        \* note ids ever handed out by the index (uuid4 is fresh)
MaxRevision == 3     \* revisions explored (increment_revision stops here)

NoteKeys == 1..MaxNotes

MaxThreads == 2      \* concurrent callers of the note service

Threads == 1..MaxThreads

TERMINAL_STATUSES == {"completed", "failed", "orphaned", "cancelled"}
ACTIVE_STATUSES == {"queued", "running", "cancel_requested", "interrupted"}

\* The one note of the model and an id the index does not know.
NoteIds == {"note-1"}
UnknownNoteIds == {"note-x"}

\* The marker token the client puts into the note for its n-th recording (the
\* client makes a new token for every recording), and all of them.
FreshToken(n) == <<"tx", n>>
Tokens == {FreshToken(n) : n \in JobIds}

\* ------------------------------------------------------------------ state
VARIABLES
    jobs,          \* self._state["jobs"]: job id -> job record
    queue,         \* self._state["queue"]: sequence of job ids
    snapshot,      \* the snapshot file: [jobs, queue] as last persisted
    settings,      \* settings_service.get()["transcription"]
    now,           \* wall clock
    nextId,        \* next fresh job id
    audio,         \* job ids whose temp audio file exists on disk
    noteLive,      \* the note's index record exists and is not tombstoned
    noteFile,      \* the note's file exists on disk
    content,       \* marker tokens occurring in the note's content
    pc,            \* per worker: position in _worker_loop / _run_job
    cur,           \* per worker: job_id local of the run
    msg,           \* per worker: `message` local of the exception handler
    applyResult,   \* per worker: `apply_result` local
    target,        \* per worker: `note_id` and `marker_token` locals
    phCalls,       \* history: replace_marker calls made by the failure handler of the current run
    cleanupCalls,  \* history: cleanup_temp_file invocations per job
    cancelEarly,   \* history: jobs cancelled while leased and before the post-transcription lock block
    hiConc,        \* history: largest max_concurrent_jobs seen since construction
    http,          \* the POST /jobs request in flight: position, locals and response
    upload,        \* the uploaded temp audio of that request is on disk, owned by no job
    notes,         \* NoteIndexService._state["notes"]: note id -> [path, revision, deleted]
    pathToId,      \* NoteIndexService._state["path_to_id"]: path -> note id
    nextNote,      \* next fresh note id
    ixRet,         \* what the last call of the index returned
    files,         \* the notes directory: canonical path -> content of the note file
    writeLock,     \* NoteService._write_lock: the thread holding it, 0 when free
    thr,           \* per caller thread of NoteService: position and locals
    outcome        \* what the last finished call of NoteService returned or raised

httpVars == <<http, upload>>
indexVars == <<notes, pathToId, nextNote, ixRet>>
svcVars == <<files, writeLock, thr, outcome>>
sideVars == <<httpVars, indexVars, svcVars>>

vars == <<jobs, queue, snapshot, settings, now, nextId, sideVars, audio, noteLive, noteFile,
          content, pc, cur, msg, applyResult, target, phCalls, cleanupCalls, cancelEarly,
          hiConc>>

engineVars == <<jobs, queue, snapshot>>
noteVars == <<noteLive, noteFile, content>>
workerVars == <<pc, cur, msg, applyResult, target, phCalls>>

\* Everything the note index and the note service never touch
engineAll == <<engineVars, settings, now, nextId, httpVars, audio, noteVars, workerVars,
               cleanupCalls, cancelEarly, hiConc>>

State(js, q) == [jobs |-> js, queue |-> q]

\* ------------------------------------------------------------------ messages
\* A message (str(exc)) is a sequence of characters.
Whitespace == {" ", "\n", "\t"}

\* str.lower() on the characters that occur in the model's messages
Lower(c) ==
    CASE c = "N" -> "n"
      [] c = "T" -> "t"
      [] c = "O" -> "o"
      [] c = "D" -> "d"
      [] OTHER -> c

LowerSeq(s) == [i \in 1..Len(s) |-> Lower(s[i])]

\* Python's `needle in text`
Contains(text, needle) ==
    \E i \in 0..(Len(text) - Len(needle)) :
        \A k \in 1..Len(needle) : text[i + k] = needle[k]

Needles ==
    {<<"t", "i", "m", "e", "o", "u", "t">>,
     <<"t", "i", "m", "e", "d", " ", "o", "u", "t">>,
     <<"t", "e", "m", "p", "o", "r", "a", "r", "i", "l", "y", " ", "u", "n", "a", "v", "a", "i", "l", "a", "b", "l", "e">>,
     <<"c", "o", "n", "n", "e", "c", "t", "i", "o", "n", " ", "r", "e", "s", "e", "t">>,
     <<"c", "o", "n", "n", "e", "c", "t", "i", "o", "n", " ", "a", "b", "o", "r", "t", "e", "d">>,
     <<"n", "e", "t", "w", "o", "r", "k">>,
     <<"5", "0", "2">>,
     <<"5", "0", "3">>,
     <<"5", "0", "4">>}

\* _is_transient_error
IsTransientError(message) ==
    \E needle \in Needles : Contains(LowerSeq(message), needle)

\* " ".join(text.split()): whitespace runs become one blank, none at the ends.
\* `mode` is "start" before the first word, "word" inside a word and "space"
\* after a whitespace run that follows a word.
RECURSIVE JoinSplit(_, _)
JoinSplit(text, mode) ==
    IF text = <<>> THEN <<>>
    ELSE IF Head(text) \in Whitespace
         THEN JoinSplit(Tail(text), IF mode = "start" THEN "start" ELSE "space")
         ELSE (IF mode = "space" THEN <<" ">> ELSE <<>>)
              \o <<Head(text)>> \o JoinSplit(Tail(text), "word")

UnknownTranscriptionError ==
    <<"U", "n", "k", "n", "o", "w", "n", " ", "t", "r", "a", "n", "s", "c", "r", "i",
    "p", "t", "i", "o", "n", " ", "e", "r", "r", "o", "r">>

\* A placeholder built from the message as raised, whitespace and length untouched
BuildFailurePlaceholderRaw(message) ==
    [prefix |-> "[Transcription failed: ", body |-> message, suffix |-> "]"]

\* _build_failure_placeholder: the f-string is kept as its three parts.
BuildFailurePlaceholder(message) ==
    LET cleaned == JoinSplit(IF message = <<>> THEN UnknownTranscriptionError ELSE message,
                             "start")
    IN  [prefix |-> "[Transcription failed: ",
         body |-> IF Len(cleaned) > 180
                  THEN SubSeq(cleaned, 1, 177) \o <<".", ".", ".">>
                  ELSE cleaned,
         suffix |-> "]"]

\* Messages the Transcriber raises in the model: "503 Timed Out" is transient,
\* the second (two lines) is not.
MsgTransient == <<"5", "0", "3", " ", "T", "i", "m", "e", "d", " ", "O", "u", "t">>
MsgDecoder == <<"D", "e", "c", "o", "d", "e", "r", "\n", " ", " ", "f", "a", "i", "l", "e", "d">>
TranscriberErrors == {MsgTransient, MsgDecoder}

\* FileNotFoundError raised by FileService.read_note for the note of the model
MsgNoteNotFound ==
    <<"N", "o", "t", "e", " ", "n", "o", "t", " ", "f", "o", "u", "n", "d", ":", " ",
    "n", ".", "t", "x", "t">>

\* ------------------------------------------------------------------ settings
\* The configurations the engine is started with.  The slot limit varies; the
\* other settings are those of the test suite scaled to the model: one retry,
\* a history of one entry kept for one tick.  The base delay of a retry is
\* given in ticks.
SettingsWith(retry_base) ==
    [max_concurrent_jobs : 1..WorkerSlots,
     max_queued_jobs : {2},
     history_max_entries : {1},
     history_ttl_days : {1},
     retry_max : {1},
     retry_base_ms : {retry_base},
     auto_requeue_interrupted : {TRUE}]

\* The same with automatic re-queueing after a restart switched off
SettingsNoRequeue ==
    {[cfg EXCEPT !.auto_requeue_interrupted = FALSE] : cfg \in SettingsWith(0)}

\* The same with a retry_max that allows every lease explored
SettingsPatient == {[cfg EXCEPT !.retry_max = MaxAttempts] : cfg \in SettingsWith(0)}


\* ------------------------------------------------------------------ helpers
\* `job_id in queue`
InQueue(q, j) == \E i \in 1..Len(q) : q[i] = j

\* A removal that leaves the id in the list
RemoveIdKeeps(q, j) == q

\* `if job_id in queue: queue.remove(job_id)`: the first occurrence goes
RemoveId(q, j) ==
    IF ~InQueue(q, j) THEN q
    ELSE LET i == CHOOSE i \in 1..Len(q) : q[i] = j /\ \A k \in 1..(i - 1) : q[k] # j
         IN  SubSeq(q, 1, i - 1) \o SubSeq(q, i + 1, Len(q))

\* _queue_job_locked
QueueJobLocked(s, job_id, delay, t) ==
    IF job_id \notin DOMAIN s.jobs THEN s
    ELSE State([s.jobs EXCEPT ![job_id].available_at = IF delay > 0 THEN t + delay ELSE t,
                              ![job_id].status = "queued"],
               IF InQueue(s.queue, job_id) THEN s.queue ELSE Append(s.queue, job_id))

NewJob(note_id, marker_token, t) ==
    [status |-> "queued", attempts |-> 0, restart_requeues |-> 0,
     cancel_requested |-> FALSE, available_at |-> t, completed_at |-> "None",
     error_code |-> "None", note_id |-> note_id, marker_token |-> marker_token,
     transcript_text |-> <<>>]

\* NoteIndexService.resolve_path through NoteService.resolve_note_path
ResolveNotePath(note_id) == note_id \in NoteIds /\ noteLive

NoTarget == [note_id |-> "None", marker_token |-> "None"]

ActiveQueued(js) == Cardinality({j \in DOMAIN js : js[j].status \in ACTIVE_STATUSES})

TypeOK ==
    /\ DOMAIN jobs \subseteq JobIds
    /\ nextId \in 1..(MaxJobs + 1)
    /\ now \in Times
    /\ settings.max_concurrent_jobs \in 1..WorkerSlots
    /\ pc \in [Workers -> {"idle", "leased", "transcribe", "apply", "finish",
                           "cleanup", "failapply", "failfinish"}]

\* ------------------------------------------------------------------ note index
\* Paths as the callers write them, and the two normal forms they have.
PathA == <<"a">>
PathDB == <<"d", "/", "b">>
RawPaths == {PathA, <<" ", "a">>, PathDB, <<"d", "\\", "b", " ">>}

\* str.strip(): leading and trailing whitespace goes
RECURSIVE Strip(_)
Strip(text) ==
    IF text = <<>> THEN text
    ELSE IF Head(text) \in Whitespace THEN Strip(Tail(text))
    ELSE IF text[Len(text)] \in Whitespace THEN Strip(SubSeq(text, 1, Len(text) - 1))
    ELSE text

\* _normalize_path
NormalizePath(path) ==
    LET stripped == Strip(path)
    IN  [i \in 1..Len(stripped) |-> IF stripped[i] = "\\" THEN "/" ELSE stripped[i]]

\* sorted(normalized): the normal forms in string order
SortedPaths == <<PathA, PathDB>>

\* The index as one value: the two dicts and the next fresh id
Index(ns, p2i, next) == [notes |-> ns, path_to_id |-> p2i, next |-> next]

\* What the last call of the index was and what it returned (note_id 0 is None)
Return(call, arg, note_id, revision) ==
    [call |-> call, arg |-> arg, note_id |-> note_id, revision |-> revision]

NoReturn == Return("none", <<>>, 0, 0)

\* dict[key] = value
Put(f, key, value) == [k \in DOMAIN f \cup {key} |-> IF k = key THEN value ELSE f[k]]

\* del dict[key]
Del(f, key) == [k \in DOMAIN f \ {key} |-> f[k]]

\* _ensure_path_locked: the index afterwards and the payload returned
EnsurePathLocked(ix, path) ==
    IF /\ path \in DOMAIN ix.path_to_id
       /\ ix.path_to_id[path] \in DOMAIN ix.notes
    THEN LET note_id == ix.path_to_id[path]
         IN  [ix |-> [ix EXCEPT !.notes[note_id].deleted = FALSE],
              ret |-> Return("ensure_path", path, note_id, ix.notes[note_id].revision)]
    ELSE LET note_id == ix.next
         IN  [ix |-> Index(Put(ix.notes, note_id,
                               [path |-> path, revision |-> 1, deleted |-> FALSE]),
                           Put(ix.path_to_id, path, note_id),
                           ix.next + 1),
              ret |-> Return("ensure_path", path, note_id, 1)]

\* sync_paths, first loop: every current path gets a record
RECURSIVE EnsureAll(_, _, _)
EnsureAll(ix, order, normalized) ==
    IF order = <<>> THEN ix
    ELSE EnsureAll(IF Head(order) \in normalized
                   THEN EnsurePathLocked(ix, Head(order)).ix ELSE ix,
                   Tail(order), normalized)

\* sync_paths, third loop: path_to_id rebuilt from the non-deleted records in
\* the order of the notes dict (the last record of a path wins)
Rebuilt(ns) ==
    LET live(path) == {id \in DOMAIN ns : ~ns[id].deleted /\ ns[id].path = path}
        paths == {ns[id].path : id \in {i \in DOMAIN ns : ~ns[i].deleted}}
    IN  [path \in paths |-> CHOOSE id \in live(path) : \A other \in live(path) : other <= id]

\* sync_paths
SyncPathsLocked(ix, current_paths) ==
    LET normalized == {NormalizePath(path) : path \in current_paths}
        ix1 == EnsureAll(ix, SortedPaths, normalized)
        ns == [id \in DOMAIN ix1.notes |->
                  [ix1.notes[id] EXCEPT !.deleted = ix1.notes[id].path \notin normalized]]
    IN  Index(ns, Rebuilt(ns), ix1.next)

\* update_path for a record that exists
UpdatePathLocked(ix, note_id, new_path) ==
    LET old_path == ix.notes[note_id].path
        normalized == NormalizePath(new_path)
        p2i == IF old_path \in DOMAIN ix.path_to_id
               THEN Del(ix.path_to_id, old_path) ELSE ix.path_to_id
    IN  Index([ix.notes EXCEPT ![note_id].path = normalized, ![note_id].deleted = FALSE],
              Put(p2i, normalized, note_id),
              ix.next)

\* mark_deleted_by_id
MarkDeletedByIdLocked(ix, note_id) ==
    IF note_id \notin DOMAIN ix.notes THEN ix
    ELSE LET path == ix.notes[note_id].path
         IN  Index([ix.notes EXCEPT ![note_id].deleted = TRUE],
                   IF path \in DOMAIN ix.path_to_id /\ ix.path_to_id[path] = note_id
                   THEN Del(ix.path_to_id, path) ELSE ix.path_to_id,
                   ix.next)

\* mark_deleted_by_path
MarkDeletedByPathLocked(ix, path) ==
    LET normalized == NormalizePath(path)
    IN  IF normalized \in DOMAIN ix.path_to_id
        THEN MarkDeletedByIdLocked(ix, ix.path_to_id[normalized])
        ELSE ix

LiveRecordAny(ix, note_id) == note_id \in DOMAIN ix.notes

\* get_by_id / resolve_path / increment_revision: `not record or record.get("deleted")`
LiveRecord(ix, note_id) == note_id \in DOMAIN ix.notes /\ ~ix.notes[note_id].deleted

IncrementRevisionSkips(ix, note_id) == ix

\* increment_revision: nothing happens to a missing or tombstoned record
IncrementRevisionLocked(ix, note_id) ==
    IF LiveRecord(ix, note_id)
    THEN [ix EXCEPT !.notes[note_id].revision = @ + 1]
    ELSE ix

\* get_by_path: the id of the live record of the path, 0 for None
GetByPath(ix, path) ==
    LET normalized == NormalizePath(path)
    IN  IF /\ normalized \in DOMAIN ix.path_to_id
           /\ LiveRecord(ix, ix.path_to_id[normalized])
        THEN ix.path_to_id[normalized] ELSE 0

TheIndex == Index(notes, pathToId, nextNote)

\* The index becomes ix and the call returns ret
SetIndex(ix, ret) ==
    /\ ix.next <= MaxNotes + 1
    /\ notes' = ix.notes
    /\ pathToId' = ix.path_to_id
    /\ nextNote' = ix.next
    /\ ixRet' = ret

\* ensure_path
EnsurePath(path) ==
    LET r == EnsurePathLocked(TheIndex, NormalizePath(path))
    IN  SetIndex(r.ix, r.ret)

\* sync_paths
SyncPaths(current_paths) ==
    SetIndex(SyncPathsLocked(TheIndex, current_paths), Return("sync_paths", <<>>, 0, 0))

\* update_path
UpdatePath(note_id, new_path) ==
    IF note_id \notin DOMAIN notes
    THEN SetIndex(TheIndex, Return("update_path", NormalizePath(new_path), 0, 0))
    ELSE LET ix == UpdatePathLocked(TheIndex, note_id, new_path)
         IN  SetIndex(ix, Return("update_path", NormalizePath(new_path), note_id,
                                 ix.notes[note_id].revision))

\* mark_deleted_by_id
MarkDeletedById(note_id) ==
    SetIndex(MarkDeletedByIdLocked(TheIndex, note_id), Return("mark_deleted", <<>>, 0, 0))

\* mark_deleted_by_path
MarkDeletedByPath(path) ==
    SetIndex(MarkDeletedByPathLocked(TheIndex, path), Return("mark_deleted", <<>>, 0, 0))

\* increment_revision
IncrementRevision(note_id) ==
    IF ~LiveRecord(TheIndex, note_id)
    THEN SetIndex(TheIndex, Return("increment_revision", <<>>, 0, 0))
    ELSE /\ notes[note_id].revision < MaxRevision
         /\ SetIndex(IncrementRevisionLocked(TheIndex, note_id),
                     Return("increment_revision", <<>>, note_id,
                            notes[note_id].revision + 1))

\* ------------------------------------------------------------------ note service
\* Note contents are sequences of characters.  Paths are canonical (extension
\* stripped); the notes directory holds one file per canonical path.
Marker == <<"[", "[", "m", "]", "]">>
Transcript == <<"t">>
Texts == {<<"h">>, Marker \o <<"x">>}

\* Notes in which the token is spelled as a markdown editor leaves it: raw,
\* with the opening brackets escaped, with all brackets escaped, twice, or
\* not at all
MarkerTexts ==
    {<<"h">>,
     <<"x">> \o Marker \o Marker,
     <<"\\", "[", "\\", "[", "m", "]", "]", "x">>,
     <<"\\", "[", "\\", "[", "m", "\\", "]", "\\", "]">>,
     <<"\\", "[", "\\", "[", "m", "\\", "]", "\\", "]">> \o Marker}
NotePaths == {PathA, PathDB}

\* str.find, counted from 1; 0 when the needle does not occur
IndexOf(text, needle) ==
    LET hits == {i \in 1..(Len(text) - Len(needle) + 1) :
                    \A k \in 1..Len(needle) : text[i + k - 1] = needle[k]}
    IN  IF hits = {} THEN 0 ELSE CHOOSE i \in hits : \A other \in hits : i <= other

\* str.replace(old, new)
RECURSIVE ReplaceAll(_, _, _)
ReplaceAll(text, old, new) ==
    LET i == IndexOf(text, old)
    IN  IF i = 0 THEN text
        ELSE SubSeq(text, 1, i - 1) \o new
                 \o ReplaceAll(SubSeq(text, i + Len(old), Len(text)), old, new)

ReplaceEvery(text, old, new) == ReplaceAll(text, old, new)

\* str.replace(old, new, 1)
ReplaceFirst(text, old, new) ==
    LET i == IndexOf(text, old)
    IN  IF i = 0 THEN text
        ELSE SubSeq(text, 1, i - 1) \o new \o SubSeq(text, i + Len(old), Len(text))

\* _marker_candidates: the spellings in order, each once
MarkerCandidates(marker_token) ==
    LET open2 == ReplaceAll(marker_token, <<"[", "[">>, <<"\\", "[", "\\", "[">>)
        candidates ==
            <<marker_token,
              open2,
              ReplaceAll(open2, <<"]", "]">>, <<"\\", "]", "\\", "]">>),
              ReplaceAll(ReplaceAll(marker_token, <<"[">>, <<"\\", "[">>),
                         <<"]">>, <<"\\", "]">>)>>
        first(i) == \A k \in 1..(i - 1) : candidates[k] # candidates[i]
        kept == {i \in 1..Len(candidates) : first(i)}
        rank(i) == Cardinality({k \in kept : k <= i})
    IN  [n \in 1..Cardinality(kept) |-> candidates[CHOOSE i \in kept : rank(i) = n]]

MatchedMarkerAlways(text, marker_token) == marker_token

\* replace_marker: the first candidate that occurs in the content, <<>> for None
MatchedMarker(text, marker_token) ==
    LET candidates == MarkerCandidates(marker_token)
        hits == {i \in 1..Len(candidates) : Contains(text, candidates[i])}
    IN  IF hits = {} THEN <<>>
        ELSE candidates[CHOOSE i \in hits : \A other \in hits : i <= other]

\* Locals of a service call in progress
Locals(op, path, text, revision, note_id, new_path) ==
    [op |-> op, path |-> path, text |-> text, revision |-> revision,
     note_id |-> note_id, new_path |-> new_path,
     marker_token |-> <<>>, replacement_text |-> <<>>]

\* What a finished call returned or raised.  For a RevisionConflictError
\* `expected_revision` and `revision` are its expected_revision and
\* current_revision; otherwise `revision` is the revision in the payload
\* (0 for None).  `note_path` is the note_path of a replace_marker payload.
Payload(op, status, note_id, expected_revision, revision, note_path) ==
    [op |-> op, status |-> status, note_id |-> note_id,
     expected_revision |-> expected_revision, revision |-> revision,
     note_path |-> note_path]

Outcome(op, status, note_id, expected_revision, revision) ==
    Payload(op, status, note_id, expected_revision, revision, <<>>)

NoOutcome == Outcome("none", "none", 0, 0, 0)

IdleThread == [pc |-> "idle", loc |-> Locals("none", <<>>, <<>>, 0, 0, <<>>)]

\* The call returns (or raises) and the thread is free again
Done(t, result) ==
    /\ thr' = [thr EXCEPT ![t] = IdleThread]
    /\ outcome' = result

At(t, label, loc) ==
    /\ thr' = [thr EXCEPT ![t] = [pc |-> label, loc |-> loc]]
    /\ UNCHANGED outcome

\* `with self._write_lock` can be entered (the lock is reentrant)
LockFreeAlways(t) == TRUE

LockFree(t) == writeLock \in {0, t}

\* get_note_by_id: get_by_id, then _build_note_dict (read_note, ensure_path)
GetNoteById(ix, fs, note_id) ==
    IF ~LiveRecord(ix, note_id) \/ ix.notes[note_id].path \notin DOMAIN fs
    THEN [ok |-> FALSE, ix |-> ix, revision |-> 0]
    ELSE LET r == EnsurePathLocked(ix, ix.notes[note_id].path)
         IN  [ok |-> TRUE, ix |-> r.ix, revision |-> r.ret.revision]

\* update_note, lines 124-127: the checks made before the lock is taken
UpdateNoteBegin(t, path, text, expected_revision) ==
    /\ thr[t].pc = "idle"
    /\ IF path \notin DOMAIN files
       THEN Done(t, Outcome("update_note", "not_found", 0, expected_revision, 0))
       ELSE At(t, "update_lock",
               Locals("update_note", path, text, expected_revision, 0, <<>>))
    /\ UNCHANGED <<indexVars, files, writeLock, engineAll>>

\* update_note, lines 129-141: lock, ensure_path, compare the revisions
UpdateNoteCheck(t) ==
    /\ thr[t].pc = "update_lock"
    /\ LockFree(t)
    /\ LET loc == thr[t].loc
           r == EnsurePathLocked(TheIndex, NormalizePath(loc.path))
       IN  /\ SetIndex(r.ix, ixRet)
           /\ IF loc.revision # r.ret.revision
              THEN /\ Done(t, Outcome("update_note", "revision_conflict", r.ret.note_id,
                                      loc.revision, r.ret.revision))
                   /\ UNCHANGED writeLock
              ELSE /\ writeLock' = t
                   /\ At(t, "update_write", [loc EXCEPT !.note_id = r.ret.note_id])
    /\ UNCHANGED <<files, engineAll>>

\* update_note, line 143: write_note
UpdateNoteWrite(t) ==
    /\ thr[t].pc = "update_write"
    /\ files' = Put(files, thr[t].loc.path, thr[t].loc.text)
    /\ At(t, "update_commit", thr[t].loc)
    /\ UNCHANGED <<indexVars, writeLock, engineAll>>

\* update_note, lines 144-145: increment_revision, get_note_by_id, unlock
UpdateNoteCommit(t) ==
    /\ thr[t].pc = "update_commit"
    /\ LET loc == thr[t].loc
           g == GetNoteById(IncrementRevisionLocked(TheIndex, loc.note_id), files,
                            loc.note_id)
       IN  /\ SetIndex(g.ix, ixRet)
           /\ Done(t, Outcome("update_note", IF g.ok THEN "ok" ELSE "not_found",
                              loc.note_id, loc.revision, g.revision))
    /\ writeLock' = 0
    /\ UNCHANGED <<files, engineAll>>

\* replace_marker, lines 156-166: lock, get_by_id
ReplaceMarkerBegin(t, note_id, marker_token, replacement_text) ==
    /\ thr[t].pc = "idle"
    /\ LockFree(t)
    /\ IF ~LiveRecord(TheIndex, note_id)
       THEN /\ Done(t, Outcome("replace_marker", "note_deleted", note_id, 0, 0))
            /\ UNCHANGED writeLock
       ELSE /\ notes[note_id].revision < MaxRevision
            /\ writeLock' = t
            /\ At(t, "replace_read",
                  [Locals("replace_marker", notes[note_id].path, <<>>,
                          notes[note_id].revision, note_id, <<>>)
                      EXCEPT !.marker_token = marker_token,
                             !.replacement_text = replacement_text])
    /\ UNCHANGED <<indexVars, files, engineAll>>

\* replace_marker, lines 167-182: read_note, look for a candidate
ReplaceMarkerRead(t) ==
    /\ thr[t].pc = "replace_read"
    /\ LET loc == thr[t].loc
           matched_marker == MatchedMarker(files[loc.path], loc.marker_token)
       IN  IF loc.path \notin DOMAIN files
           THEN /\ Done(t, Outcome("replace_marker", "not_found", loc.note_id, 0, 0))
                /\ writeLock' = 0
           ELSE IF matched_marker = <<>>
           THEN /\ Done(t, Payload("replace_marker", "marker_missing", loc.note_id, 0,
                                   loc.revision, loc.path))
                /\ writeLock' = 0
           ELSE /\ At(t, "replace_write",
                      [loc EXCEPT !.text = ReplaceFirst(files[loc.path], matched_marker,
                                                        loc.replacement_text)])
                /\ UNCHANGED writeLock
    /\ UNCHANGED <<indexVars, files, engineAll>>

\* replace_marker, lines 184-185: write_note
ReplaceMarkerStore(t) ==
    /\ thr[t].pc = "replace_write"
    /\ files' = Put(files, thr[t].loc.path, thr[t].loc.text)
    /\ At(t, "replace_commit", thr[t].loc)
    /\ UNCHANGED <<indexVars, writeLock, engineAll>>

\* replace_marker, lines 186-201: increment_revision, return applied, unlock
ReplaceMarkerCommit(t) ==
    /\ thr[t].pc = "replace_commit"
    /\ LET loc == thr[t].loc
           new_revision == IF LiveRecord(TheIndex, loc.note_id)
                           THEN notes[loc.note_id].revision + 1 ELSE 0
       IN  /\ SetIndex(IncrementRevisionLocked(TheIndex, loc.note_id), ixRet)
           /\ Done(t, Payload("replace_marker", "applied", loc.note_id, 0, new_revision,
                            loc.path))
    /\ writeLock' = 0
    /\ UNCHANGED <<files, engineAll>>

\* delete_note, lines 226-228: get_by_path
DeleteNoteBegin(t, path) ==
    /\ thr[t].pc = "idle"
    /\ At(t, "delete_file", Locals("delete_note", path, <<>>, 0, GetByPath(TheIndex, path), <<>>))
    /\ UNCHANGED <<indexVars, files, writeLock, engineAll>>

\* delete_note, line 229: file_service.delete_note
DeleteNoteUnlink(t) ==
    /\ thr[t].pc = "delete_file"
    /\ LET loc == thr[t].loc
       IN  IF loc.path \notin DOMAIN files
           THEN Done(t, Outcome("delete_note", "not_found", loc.note_id, 0, 0))
                    /\ UNCHANGED files
           ELSE files' = Del(files, loc.path) /\ At(t, "delete_mark", loc)
    /\ UNCHANGED <<indexVars, writeLock, engineAll>>

\* delete_note, lines 230-233: tombstone the record
DeleteNoteMark(t) ==
    /\ thr[t].pc = "delete_mark"
    /\ LET loc == thr[t].loc
       IN  /\ SetIndex(IF loc.note_id # 0
                       THEN MarkDeletedByIdLocked(TheIndex, loc.note_id)
                       ELSE MarkDeletedByPathLocked(TheIndex, loc.path), ixRet)
           /\ Done(t, Outcome("delete_note", "ok", loc.note_id, 0, 0))
    /\ UNCHANGED <<files, writeLock, engineAll>>

\* rename_note / move_note, lines 236-239 and 247-250: ensure_path of the old path
RenameNoteBegin(t, op, path, new_path) ==
    /\ thr[t].pc = "idle"
    /\ LET r == EnsurePathLocked(TheIndex, NormalizePath(path))
       IN  /\ SetIndex(r.ix, ixRet)
           /\ At(t, "rename_file", Locals(op, path, <<>>, 0, r.ret.note_id, new_path))
    /\ UNCHANGED <<files, writeLock, engineAll>>

\* file_service.rename_note / move_note: rename replaces an existing target,
\* move raises FileExistsError
RenameNoteFile(t) ==
    /\ thr[t].pc = "rename_file"
    /\ LET loc == thr[t].loc
       IN  IF loc.path \notin DOMAIN files
           THEN Done(t, Outcome(loc.op, "not_found", loc.note_id, 0, 0)) /\ UNCHANGED files
           ELSE IF loc.op = "move_note" /\ loc.new_path \in DOMAIN files
           THEN Done(t, Outcome(loc.op, "exists", loc.note_id, 0, 0)) /\ UNCHANGED files
           ELSE /\ files' = Put(Del(files, loc.path), loc.new_path, files[loc.path])
                /\ At(t, "rename_index", loc)
    /\ UNCHANGED <<indexVars, writeLock, engineAll>>

\* rename_note / move_note, lines 243-244 and 254-255: update_path, get_note_by_id
RenameNoteIndex(t) ==
    /\ thr[t].pc = "rename_index"
    /\ LET loc == thr[t].loc
           g == GetNoteById(IF loc.note_id \in DOMAIN notes
                            THEN UpdatePathLocked(TheIndex, loc.note_id, loc.new_path)
                            ELSE TheIndex, files, loc.note_id)
       IN  /\ SetIndex(g.ix, ixRet)
           /\ Done(t, Outcome(loc.op, IF g.ok THEN "ok" ELSE "not_found", loc.note_id, 0,
                              g.revision))
    /\ UNCHANGED <<files, writeLock, engineAll>>

\* get_note: _build_note_dict reads the file and ensures the path
GetNote(t, path) ==
    /\ thr[t].pc = "idle"
    /\ IF path \notin DOMAIN files
       THEN Done(t, Outcome("get_note", "not_found", 0, 0, 0)) /\ UNCHANGED indexVars
       ELSE LET r == EnsurePathLocked(TheIndex, NormalizePath(path))
            IN  /\ SetIndex(r.ix, ixRet)
                /\ Done(t, Outcome("get_note", "ok", r.ret.note_id, 0, r.ret.revision))
    /\ UNCHANGED <<files, writeLock, engineAll>>

\* create_note, lines 115-118: the file is written unless it exists
CreateNoteBegin(t, path, text) ==
    /\ thr[t].pc = "idle"
    /\ IF path \in DOMAIN files
       THEN Done(t, Outcome("create_note", "exists", 0, 0, 0)) /\ UNCHANGED files
       ELSE /\ files' = Put(files, path, text)
            /\ At(t, "create_index", Locals("create_note", path, text, 0, 0, <<>>))
    /\ UNCHANGED <<indexVars, writeLock, engineAll>>

\* create_note, lines 119-121: ensure_path, get_note
CreateNoteIndex(t) ==
    /\ thr[t].pc = "create_index"
    /\ LET loc == thr[t].loc
           r == EnsurePathLocked(TheIndex, NormalizePath(loc.path))
       IN  /\ SetIndex(r.ix, ixRet)
           /\ Done(t, IF loc.path \in DOMAIN files
                      THEN Outcome("create_note", "ok", r.ret.note_id, 0, r.ret.revision)
                      ELSE Outcome("create_note", "not_found", r.ret.note_id, 0, 0))
    /\ UNCHANGED <<files, writeLock, engineAll>>

\* sync_index: the paths of the files on disk go to sync_paths
SyncIndex(t) ==
    /\ thr[t].pc = "idle"
    /\ SetIndex(SyncPathsLocked(TheIndex, DOMAIN files), ixRet)
    /\ Done(t, Outcome("sync_index", "ok", 0, 0, 0))
    /\ UNCHANGED <<files, writeLock, engineAll>>

UpdateNote(t) ==
    \/ \E path \in NotePaths, text \in Texts, expected_revision \in 1..(MaxRevision - 1) :
          UpdateNoteBegin(t, path, text, expected_revision)
    \/ UpdateNoteCheck(t)
    \/ UpdateNoteWrite(t)
    \/ UpdateNoteCommit(t)

ReplaceMarker(t) ==
    \/ \E note_id \in NoteKeys : ReplaceMarkerBegin(t, note_id, Marker, Transcript)
    \/ ReplaceMarkerRead(t)
    \/ ReplaceMarkerStore(t)
    \/ ReplaceMarkerCommit(t)

DeleteNote(t) ==
    \/ \E path \in NotePaths : DeleteNoteBegin(t, path)
    \/ DeleteNoteUnlink(t)
    \/ DeleteNoteMark(t)

RenameNote(t) ==
    \/ \E op \in {"rename_note", "move_note"}, path \in NotePaths, new_path \in NotePaths :
          RenameNoteBegin(t, op, path, new_path)
    \/ RenameNoteFile(t)
    \/ RenameNoteIndex(t)

CreateNote(t) ==
    \/ \E path \in NotePaths, text \in Texts : CreateNoteBegin(t, path, text)
    \/ CreateNoteIndex(t)

\* No request in flight; `status` is the HTTP status of the last response.
HttpIdle == [pc |-> "idle", note_id |-> "None", temp_path |-> FALSE,
             error |-> "None", status |-> 0, cleanups |-> 0]

\* The state after the first construction of the engine (no snapshot file)
InitWith(cfgs) ==
    /\ jobs = <<>>
    /\ queue = <<>>
    /\ snapshot = State(<<>>, <<>>)
    /\ settings \in cfgs
    /\ now = 0
    /\ nextId = 1
    /\ audio = {}
    /\ noteLive = TRUE
    /\ noteFile = TRUE
    /\ content = Tokens
    /\ pc = [w \in Workers |-> "idle"]
    /\ cur = [w \in Workers |-> NoJob]
    /\ msg = [w \in Workers |-> <<>>]
    /\ applyResult = [w \in Workers |-> "None"]
    /\ target = [w \in Workers |-> NoTarget]
    /\ phCalls = [w \in Workers |-> <<>>]
    /\ cleanupCalls = [j \in JobIds |-> 0]
    /\ http = HttpIdle
    /\ upload = FALSE
    /\ notes = <<>>
    /\ pathToId = <<>>
    /\ nextNote = 1
    /\ ixRet = NoReturn
    /\ files = <<>>
    /\ writeLock = 0
    /\ thr = [t \in Threads |-> IdleThread]
    /\ outcome = NoOutcome
    /\ cancelEarly = {}
    /\ hiConc = settings.max_concurrent_jobs

\* ------------------------------------------------------------------ pruning
\* _remove_job_locked
RemoveJobLocked(s, job_id) ==
    State([j \in (DOMAIN s.jobs) \ {job_id} |-> s.jobs[j]], RemoveId(s.queue, job_id))

\* The loops `for job_id in ...: self._remove_job_locked(job_id)` of
\* _prune_history_locked (the removals of different ids commute)
RECURSIVE RemoveJobsLocked(_, _)
RemoveJobsLocked(s, ids) ==
    IF ids = {} THEN s
    ELSE LET job_id == CHOOSE x \in ids : TRUE
         IN  RemoveJobsLocked(RemoveJobLocked(s, job_id), ids \ {job_id})

TerminalIds(js) == {j \in DOMAIN js : js[j].status \in TERMINAL_STATUSES}

\* A TTL rule that looks at every job, by the time it was queued
PruneByTtlAny(s, cfg, t) ==
    RemoveJobsLocked(s, {j \in DOMAIN s.jobs :
                            s.jobs[j].available_at < t - cfg.history_ttl_days})

\* First rule of _prune_history_locked: terminal jobs older than the TTL.
\* (completed_at is set by every terminal transition, so the fallbacks to
\* updated_at and created_at are never taken.)
PruneByTtl(s, cfg, t) ==
    RemoveJobsLocked(s, {j \in TerminalIds(s.jobs) :
                            s.jobs[j].completed_at < t - cfg.history_ttl_days})

\* Second rule: sort the terminal jobs by completed_at, newest first, and drop
\* everything past index history_max_entries.  The sort is stable, and the
\* order among equal timestamps is the iteration order of the jobs dict
\* (insertion order in a running process, key order after a reload): any
\* order of the ties is allowed here.
KeepSets(s, cfg) ==
    LET T == TerminalIds(s.jobs)
    IN  {K \in SUBSET T :
            /\ Cardinality(K) = IF Cardinality(T) <= cfg.history_max_entries
                                THEN Cardinality(T) ELSE cfg.history_max_entries
            /\ \A k \in K, d \in T \ K :
                   s.jobs[k].completed_at >= s.jobs[d].completed_at}

\* _prune_history_locked: the set of states it can produce
PruneHistoryLocked(s, cfg, t) ==
    LET s1 == PruneByTtl(s, cfg, t)
    IN  {RemoveJobsLocked(s1, TerminalIds(s1.jobs) \ K) : K \in KeepSets(s1, cfg)}

\* ------------------------------------------------------------------ admission
\* create_job with the bound `>` in place of `>=`
QueueFullStrict(js, cfg) == ActiveQueued(js) > cfg.max_queued_jobs

\* create_job: `if active_queued >= max_queued`
QueueFull(js, cfg) == ActiveQueued(js) >= cfg.max_queued_jobs

\* create_job past its two checks: the job is added, queued, the history is
\* pruned and the snapshot saved; the file at audio_path is the job's from now.
Admit(note_id, marker_token) ==
    LET job_id == nextId
        s0 == State(jobs @@ (job_id :> NewJob(note_id, marker_token, now)), queue)
        s1 == QueueJobLocked(s0, job_id, 0, now)
    IN  \E s2 \in PruneHistoryLocked(s1, settings, now) :
          /\ jobs' = s2.jobs
          /\ queue' = s2.queue
          /\ snapshot' = s2
          /\ nextId' = nextId + 1
          /\ audio' = audio \cup {job_id}
          /\ UNCHANGED <<settings, now, noteVars, workerVars,
                         cleanupCalls, cancelEarly, hiConc>>

\* create_job: the two rejections leave everything unchanged.
CreateJob(note_id, marker_token) ==
    /\ nextId <= MaxJobs
    /\ IF QueueFull(jobs, settings)
       THEN UNCHANGED vars                      \* ValueError: queue full
       ELSE IF ~ResolveNotePath(note_id)
       THEN UNCHANGED vars                      \* FileNotFoundError: note not found
       ELSE Admit(note_id, marker_token) /\ UNCHANGED sideVars

\* ------------------------------------------------------------------ POST /jobs
\* A cleanup_temp closure that forgets to reset temp_path
CleanupTempKeepsPath(h, up) ==
    IF ~h.temp_path THEN [http |-> h, upload |-> up]
    ELSE [http |-> [h EXCEPT !.cleanups = @ + 1], upload |-> FALSE]

\* The cleanup_temp closure of create_transcription_job
CleanupTemp(h, up) ==
    IF ~h.temp_path THEN [http |-> h, upload |-> up]
    ELSE [http |-> [h EXCEPT !.temp_path = FALSE, !.cleanups = @ + 1], upload |-> FALSE]

\* The `except` clauses of create_transcription_job
StatusOf(error) ==
    IF error = "FileNotFoundError" THEN 404
    ELSE IF error = "ValueError" THEN 400
    ELSE 500

\* create_transcription_job up to the call of create_job: the form fields are
\* checked ("" stands for a missing note_id) and the upload is saved.
HttpPost(note_id) ==
    /\ http.pc = "idle"
    /\ nextId <= MaxJobs
    /\ IF note_id = ""
       THEN /\ http' = [HttpIdle EXCEPT !.status = 400]
            /\ UNCHANGED upload
       ELSE /\ http' = [HttpIdle EXCEPT !.pc = "saved", !.note_id = note_id,
                                        !.temp_path = TRUE]
            /\ upload' = TRUE
    /\ UNCHANGED <<engineVars, settings, now, nextId, audio, noteVars, workerVars,
                   cleanupCalls, cancelEarly, hiConc>>
    /\ UNCHANGED <<indexVars, svcVars>>

\* The call of job_service.create_job by the request
HttpCreate ==
    /\ http.pc = "saved"
    /\ IF QueueFull(jobs, settings)
       THEN /\ http' = [http EXCEPT !.pc = "raised", !.error = "ValueError"]
            /\ UNCHANGED <<engineVars, settings, now, nextId, upload, audio, noteVars,
                           workerVars, cleanupCalls, cancelEarly, hiConc>>
       ELSE IF ~ResolveNotePath(http.note_id)
       THEN /\ http' = [http EXCEPT !.pc = "raised", !.error = "FileNotFoundError"]
            /\ UNCHANGED <<engineVars, settings, now, nextId, upload, audio, noteVars,
                           workerVars, cleanupCalls, cancelEarly, hiConc>>
       ELSE /\ Admit(http.note_id, FreshToken(nextId))
            /\ http' = [http EXCEPT !.pc = "idle", !.status = 202]
            /\ upload' = FALSE
    /\ UNCHANGED <<indexVars, svcVars>>

\* The handlers of the request: `except Exception: cleanup_temp(); raise` and
\* the outer clause that calls cleanup_temp again and builds the response
HttpExcept ==
    /\ http.pc = "raised"
    /\ LET inner == CleanupTemp(http, upload)
           outer == CleanupTemp(inner.http, inner.upload)
       IN  /\ http' = [outer.http EXCEPT !.pc = "idle", !.status = StatusOf(http.error)]
           /\ upload' = outer.upload
    /\ UNCHANGED <<engineVars, settings, now, nextId, audio, noteVars, workerVars,
                   cleanupCalls, cancelEarly, hiConc>>
    /\ UNCHANGED <<indexVars, svcVars>>

\* ------------------------------------------------------------------ workers
\* The scan of _next_queued_job_locked over a copy of the queue: `rest` is the
\* part of the copy still to visit, `q` the live queue.
RECURSIVE ScanQueue(_, _, _, _)
ScanQueue(rest, q, js, t) ==
    IF rest = <<>> THEN [queue |-> q, job_id |-> NoJob]
    ELSE LET job_id == Head(rest)
         IN  IF job_id \notin DOMAIN js
             THEN ScanQueue(Tail(rest), RemoveId(q, job_id), js, t)
             ELSE IF js[job_id].status # "queued"
             THEN ScanQueue(Tail(rest), RemoveId(q, job_id), js, t)
             ELSE IF js[job_id].available_at > t
             THEN ScanQueue(Tail(rest), q, js, t)
             ELSE [queue |-> RemoveId(q, job_id), job_id |-> job_id]

\* A worker loop without the index gate: every worker is eligible
WorkerEligibleAlways(worker_index, cfg) == TRUE

\* The worker slot check of _next_queued_job_locked
WorkerEligible(worker_index, cfg) == ~(worker_index >= cfg.max_concurrent_jobs)

\* A scan that visits the queue from its tail
NextQueuedJobLockedLifo(worker_index, q, js, cfg, t) ==
    IF ~WorkerEligible(worker_index, cfg)
    THEN [queue |-> q, job_id |-> NoJob]
    ELSE ScanQueue([i \in 1..Len(q) |-> q[Len(q) + 1 - i]], q, js, t)

\* A scan that gives up at a delayed job at the head of the queue
NextQueuedJobLockedBlocking(worker_index, q, js, cfg, t) ==
    IF ~WorkerEligible(worker_index, cfg)
    THEN [queue |-> q, job_id |-> NoJob]
    ELSE IF /\ q # <<>>
            /\ Head(q) \in DOMAIN js
            /\ js[Head(q)].status = "queued"
            /\ js[Head(q)].available_at > t
    THEN [queue |-> q, job_id |-> NoJob]
    ELSE ScanQueue(q, q, js, t)

\* _next_queued_job_locked
NextQueuedJobLocked(worker_index, q, js, cfg, t) ==
    IF ~WorkerEligible(worker_index, cfg)
    THEN [queue |-> q, job_id |-> NoJob]
    ELSE ScanQueue(q, q, js, t)

\* One iteration of _worker_loop up to the call of _run_job: the lease.
\* Without a job the worker sleeps and polls again; entries dropped from the
\* queue by the scan are then not persisted.
WorkerLoop(w) ==
    /\ pc[w] = "idle"
    /\ LET r == NextQueuedJobLocked(w, queue, jobs, settings, now)
       IN  IF r.job_id # NoJob
           THEN /\ jobs[r.job_id].attempts < MaxAttempts
                /\ jobs' = [jobs EXCEPT ![r.job_id].status = "running",
                                        ![r.job_id].attempts = @ + 1,
                                        ![r.job_id].cancel_requested = FALSE]
                /\ queue' = r.queue
                /\ snapshot' = State(jobs', queue')
                /\ pc' = [pc EXCEPT ![w] = "leased"]
                /\ cur' = [cur EXCEPT ![w] = r.job_id]
                /\ cancelEarly' = cancelEarly \ {r.job_id}
                /\ UNCHANGED <<settings, now, nextId, sideVars, audio, noteVars, msg, applyResult,
                               target, phCalls, cleanupCalls, hiConc>>
           ELSE /\ queue' = r.queue
                /\ UNCHANGED <<jobs, snapshot, settings, now, nextId, sideVars, audio, noteVars,
                               workerVars, cleanupCalls, cancelEarly, hiConc>>

Idle(w) ==
    /\ pc' = [pc EXCEPT ![w] = "idle"]
    /\ cur' = [cur EXCEPT ![w] = NoJob]
    /\ msg' = [msg EXCEPT ![w] = <<>>]
    /\ applyResult' = [applyResult EXCEPT ![w] = "None"]
    /\ target' = [target EXCEPT ![w] = NoTarget]
    /\ phCalls' = [phCalls EXCEPT ![w] = <<>>]

Goto(w, label) ==
    /\ pc' = [pc EXCEPT ![w] = label]
    /\ UNCHANGED <<cur, target, phCalls>>

\* whisper_service.cleanup_temp_file(audio_path) for the audio of job_id
CleanupTempFile(job_id) ==
    /\ audio' = audio \ {job_id}
    /\ cleanupCalls' = [cleanupCalls EXCEPT ![job_id] = @ + 1]

\* _mark_cancelled_locked: the fields it sets (it also cleans up the audio)
MarkCancelledLocked(js, job_id, code, t) ==
    [js EXCEPT ![job_id].status = "cancelled",
               ![job_id].completed_at = t,
               ![job_id].error_code = code]

\* A critical section that returns without _save
SaveSkipped == UNCHANGED snapshot

\* _save: the snapshot file gets the state
Save == snapshot' = State(jobs', queue')

\* Whether the first critical section of _run_job gives the run up
RunGivenUp(js, job_id) ==
    \/ job_id \notin DOMAIN js
    \/ js[job_id].status # "running"

\* _run_job, first critical section (before the Transcriber is called)
RunStart(w) ==
    /\ pc[w] = "leased"
    /\ LET job_id == cur[w]
       IN  IF RunGivenUp(jobs, job_id)
           THEN /\ Idle(w)
                /\ UNCHANGED <<engineVars, settings, now, nextId, sideVars, audio, noteVars,
                               cleanupCalls, cancelEarly, hiConc>>
           ELSE IF jobs[job_id].cancel_requested
           THEN /\ jobs' = MarkCancelledLocked(jobs, job_id, "cancel_requested_before_start", now)
                /\ CleanupTempFile(job_id)
                /\ UNCHANGED queue
                /\ Save
                /\ Idle(w)
                /\ UNCHANGED <<settings, now, nextId, sideVars, noteVars, cancelEarly, hiConc>>
           ELSE /\ pc' = [pc EXCEPT ![w] = "transcribe"]
                /\ target' = [target EXCEPT ![w] =
                                  [note_id |-> jobs[job_id].note_id,
                                   marker_token |-> jobs[job_id].marker_token]]
                /\ UNCHANGED <<engineVars, settings, now, nextId, sideVars, audio, noteVars, cur, msg,
                               applyResult, phCalls, cleanupCalls, cancelEarly, hiConc>>

\* Whether the critical section after the Transcriber call honours a cancel
CancelSeenAfterTranscription(job) == job.cancel_requested

\* The Transcriber returned: second critical section of _run_job
TranscribeReturns(w) ==
    /\ pc[w] = "transcribe"
    /\ LET job_id == cur[w]
       IN  IF job_id \notin DOMAIN jobs
           THEN /\ Idle(w)
                /\ UNCHANGED <<engineVars, settings, now, nextId, sideVars, audio, noteVars,
                               cleanupCalls, cancelEarly, hiConc>>
           ELSE IF CancelSeenAfterTranscription(jobs[job_id])
           THEN /\ jobs' = MarkCancelledLocked(jobs, job_id, "cancel_requested_during_run", now)
                /\ CleanupTempFile(job_id)
                /\ UNCHANGED queue
                /\ Save
                /\ Idle(w)
                /\ UNCHANGED <<settings, now, nextId, sideVars, noteVars, cancelEarly, hiConc>>
           ELSE /\ Goto(w, "apply")
                /\ UNCHANGED <<engineVars, settings, now, nextId, sideVars, audio, noteVars, msg,
                               applyResult, cleanupCalls, cancelEarly, hiConc>>

RECURSIVE Pow2(_)
Pow2(n) == IF n <= 0 THEN 1 ELSE 2 * Pow2(n - 1)

\* A should_retry that ignores the number of attempts
ShouldRetryAlways(message, attempts, cfg) == IsTransientError(message)

\* should_retry of the exception handler
ShouldRetry(message, attempts, cfg) ==
    IsTransientError(message) /\ attempts <= cfg.retry_max

\* A retry delay without backoff
RetryDelayFlat(attempts, cfg) == cfg.retry_base_ms

\* delay_ms of the retry branch
RetryDelay(attempts, cfg) == cfg.retry_base_ms * Pow2(attempts - 1)

\* A retry branch that deletes the temp audio before the job is queued again
RetryAudioCleaned(job_id) == CleanupTempFile(job_id)

\* The retry branch returns without a call of cleanup_temp_file
RetryAudio(job_id) == UNCHANGED <<audio, cleanupCalls>>

\* First critical section of the `except Exception` handler of _run_job, for
\* an exception with this message raised outside the lock.
ExceptionBlock(w, message) ==
    LET job_id == cur[w]
    IN  IF job_id \notin DOMAIN jobs
        THEN /\ Idle(w)
             /\ UNCHANGED <<engineVars, settings, now, nextId, sideVars, audio, noteVars,
                            cleanupCalls, cancelEarly, hiConc>>
        ELSE IF ShouldRetry(message, jobs[job_id].attempts, settings)
        THEN LET s0 == State([jobs EXCEPT ![job_id].error_code = "transient_error"], queue)
                 s1 == QueueJobLocked(s0, job_id,
                                      RetryDelay(jobs[job_id].attempts, settings), now)
             IN  /\ jobs' = s1.jobs
                 /\ queue' = s1.queue
                 /\ Save
                 /\ RetryAudio(job_id)
                 /\ Idle(w)
                 /\ UNCHANGED <<settings, now, nextId, sideVars, noteVars, cancelEarly, hiConc>>
        ELSE /\ Goto(w, "failapply")
             /\ msg' = [msg EXCEPT ![w] = message]
             /\ applyResult' = [applyResult EXCEPT ![w] = "None"]
             /\ UNCHANGED <<engineVars, settings, now, nextId, sideVars, audio, noteVars,
                            cleanupCalls, cancelEarly, hiConc>>

\* The Transcriber raised
TranscribeRaises(w, message) ==
    /\ pc[w] = "transcribe"
    /\ ExceptionBlock(w, message)

\* NoteService.replace_marker: its outcome for this note state.  "raise" is
\* the FileNotFoundError of read_note when the file is gone while the index
\* record is still live (delete_note removes the file first).
ReplaceMarkerStatus(note_id, marker_token) ==
    IF ~(note_id \in NoteIds /\ noteLive) THEN "note_deleted"
    ELSE IF ~noteFile THEN "raise"
    ELSE IF marker_token \notin content THEN "marker_missing"
    ELSE "applied"

\* A replace_marker that leaves the marker in the content
ReplaceMarkerKeepsMarker(note_id, marker_token) == UNCHANGED content

\* The write of replace_marker: the first occurrence of the marker is replaced
ReplaceMarkerWrite(note_id, marker_token) ==
    IF ReplaceMarkerStatus(note_id, marker_token) = "applied"
    THEN content' = content \ {marker_token}
    ELSE UNCHANGED content

\* _run_job: replace_marker(note_id, marker_token, transcript), outside the lock
ApplyMarker(w) ==
    /\ pc[w] = "apply"
    /\ LET job == target[w]
           status == ReplaceMarkerStatus(job.note_id, job.marker_token)
       IN  IF status = "raise"
           THEN ExceptionBlock(w, MsgNoteNotFound)
           ELSE /\ ReplaceMarkerWrite(job.note_id, job.marker_token)
                /\ applyResult' = [applyResult EXCEPT ![w] = status]
                /\ Goto(w, "finish")
                /\ UNCHANGED <<engineVars, settings, now, nextId, sideVars, audio, noteLive, noteFile,
                               msg, cleanupCalls, cancelEarly, hiConc>>

OutcomeOfFailedOnly(status) ==
    IF status = "applied" THEN [status |-> "completed", error_code |-> "None"]
    ELSE [status |-> "failed", error_code |-> "target_note_missing"]

\* Terminal status and error_code chosen from the apply result
OutcomeOf(status) ==
    IF status = "applied" THEN [status |-> "completed", error_code |-> "None"]
    ELSE IF status = "marker_missing"
    THEN [status |-> "orphaned", error_code |-> "marker_missing"]
    ELSE [status |-> "failed", error_code |-> "target_note_missing"]

\* _run_job, third critical section: record the result
Finish(w) ==
    /\ pc[w] = "finish"
    /\ LET job_id == cur[w]
           out == OutcomeOf(applyResult[w])
       IN  IF job_id \notin DOMAIN jobs
           THEN /\ Idle(w)
                /\ UNCHANGED <<engineVars, settings, now, nextId, sideVars, audio, noteVars,
                               cleanupCalls, cancelEarly, hiConc>>
           ELSE /\ jobs' = [jobs EXCEPT ![job_id].status = out.status,
                                        ![job_id].transcript_text = Transcript,
                                        ![job_id].completed_at = now,
                                        ![job_id].error_code =
                                            IF out.error_code = "None" THEN @ ELSE out.error_code]
                /\ UNCHANGED queue
                /\ Save
                /\ Goto(w, "cleanup")
                /\ UNCHANGED <<settings, now, nextId, sideVars, audio, noteVars, msg, applyResult,
                               cleanupCalls, cancelEarly, hiConc>>

\* _run_job: cleanup_temp_file(audio_path) after the third critical section
Cleanup(w) ==
    /\ pc[w] = "cleanup"
    /\ CleanupTempFile(cur[w])
    /\ Idle(w)
    /\ UNCHANGED <<engineVars, settings, now, nextId, sideVars, noteVars, cancelEarly, hiConc>>

\* Terminal failure: replace_marker(note_id, marker_token, failure_placeholder),
\* outside the lock; an exception of the call is caught and only traced.
FailApply(w) ==
    /\ pc[w] = "failapply"
    /\ LET job == target[w]
           status == ReplaceMarkerStatus(job.note_id, job.marker_token)
       IN  /\ ReplaceMarkerWrite(job.note_id, job.marker_token)
           /\ applyResult' = [applyResult EXCEPT ![w] = IF status = "raise" THEN "None" ELSE status]
           /\ phCalls' = [phCalls EXCEPT ![w] =
                             Append(@, [note_id |-> job.note_id,
                                        marker_token |-> job.marker_token,
                                        replacement_text |-> BuildFailurePlaceholder(msg[w])])]
           /\ pc' = [pc EXCEPT ![w] = "failfinish"]
           /\ UNCHANGED <<engineVars, settings, now, nextId, sideVars, audio, noteLive, noteFile,
                          cur, msg, target, cleanupCalls, cancelEarly, hiConc>>

\* Terminal failure: last critical section of the handler
FailFinish(w) ==
    /\ pc[w] = "failfinish"
    /\ LET job_id == cur[w]
       IN  IF job_id \notin DOMAIN jobs
           THEN /\ Idle(w)
                /\ UNCHANGED <<engineVars, settings, now, nextId, sideVars, audio, noteVars,
                               cleanupCalls, cancelEarly, hiConc>>
           ELSE /\ jobs' = [jobs EXCEPT ![job_id].status = "failed",
                                        ![job_id].error_code = "transcription_error",
                                        ![job_id].completed_at = now]
                /\ UNCHANGED queue
                /\ Save
                /\ CleanupTempFile(job_id)
                /\ Idle(w)
                /\ UNCHANGED <<settings, now, nextId, sideVars, noteVars, cancelEarly, hiConc>>

\* cancel_job without its early return for terminal jobs
CancelIsNoOpNever(status) == FALSE

\* ------------------------------------------------------------------ API
\* cancel_job: whether the job is left as it is
CancelIsNoOp(status) == status \in TERMINAL_STATUSES

\* cancel_job that cancels only queued jobs on the spot
CancelsDirectlyQueuedOnly(status) == status = "queued"

\* cancel_job: whether the job is cancelled on the spot
CancelsDirectly(status) == status \in {"queued", "interrupted"}

\* The workers that are inside _run_job for this job and have not yet entered
\* the critical section that follows the Transcriber call
EarlyHolders(job_id) == {w \in Workers : cur[w] = job_id /\ pc[w] \in {"leased", "transcribe"}}

\* cancel_job
CancelJob(job_id) ==
    /\ job_id \in DOMAIN jobs
    /\ LET status == jobs[job_id].status
       IN  IF CancelIsNoOp(status)
           THEN UNCHANGED vars
           ELSE IF CancelsDirectly(status)
           THEN /\ queue' = RemoveId(queue, job_id)
                /\ jobs' = MarkCancelledLocked(jobs, job_id, "cancelled_before_run", now)
                /\ CleanupTempFile(job_id)
                /\ Save
                /\ UNCHANGED <<settings, now, nextId, sideVars, noteVars, workerVars, cancelEarly, hiConc>>
           ELSE /\ jobs' = [jobs EXCEPT ![job_id].cancel_requested = TRUE,
                                        ![job_id].status = "cancel_requested"]
                /\ UNCHANGED queue
                /\ Save
                /\ cancelEarly' = IF EarlyHolders(job_id) # {}
                                  THEN cancelEarly \cup {job_id} ELSE cancelEarly
                /\ UNCHANGED <<settings, now, nextId, sideVars, audio, noteVars, workerVars,
                               cleanupCalls, hiConc>>

\* resume_job
ResumeJob(job_id) ==
    /\ job_id \in DOMAIN jobs
    /\ IF jobs[job_id].status # "interrupted"
       THEN UNCHANGED vars
       ELSE LET s1 == QueueJobLocked(State(jobs, queue), job_id, 0, now)
            IN  /\ jobs' = s1.jobs
                /\ queue' = s1.queue
                /\ Save
                /\ UNCHANGED <<settings, now, nextId, sideVars, audio, noteVars, workerVars,
                               cleanupCalls, cancelEarly, hiConc>>

MinOf(S) == CHOOSE x \in S : \A y \in S : x <= y

\* A loop of resume_interrupted that queues every job it visits
RECURSIVE ResumeAllUnfiltered(_, _, _)
ResumeAllUnfiltered(s, ids, t) ==
    IF ids = {} THEN [state |-> s, resumed |-> 0]
    ELSE LET job_id == MinOf(ids)
             rest == ResumeAllUnfiltered(QueueJobLocked(s, job_id, 0, t), ids \ {job_id}, t)
         IN  [state |-> rest.state, resumed |-> rest.resumed + 1]

\* The loop of resume_interrupted over the jobs dict (in id order): the state
\* it leaves and the counter `resumed` that the call returns
RECURSIVE ResumeAll(_, _, _)
ResumeAll(s, ids, t) ==
    IF ids = {} THEN [state |-> s, resumed |-> 0]
    ELSE LET job_id == MinOf(ids)
             skip == s.jobs[job_id].status # "interrupted"
             rest == ResumeAll(IF skip THEN s ELSE QueueJobLocked(s, job_id, 0, t),
                               ids \ {job_id}, t)
         IN  [state |-> rest.state, resumed |-> rest.resumed + (IF skip THEN 0 ELSE 1)]

\* resume_interrupted
ResumeInterrupted ==
    LET s1 == ResumeAll(State(jobs, queue), DOMAIN jobs, now).state
    IN  /\ jobs' = s1.jobs
        /\ queue' = s1.queue
        /\ Save
        /\ UNCHANGED <<settings, now, nextId, sideVars, audio, noteVars, workerVars,
                       cleanupCalls, cancelEarly, hiConc>>

\* ------------------------------------------------------------------ restart
\* _load_state for an existing snapshot file
LoadState(snap) ==
    State(snap.jobs, SelectSeq(snap.queue, LAMBDA x : x \in DOMAIN snap.jobs))

\* A recovery without the cap on restart_requeues
AutoRequeueUncapped(job, cfg) ==
    /\ cfg.auto_requeue_interrupted
    /\ job.attempts <= cfg.retry_max

\* _recover_after_restart: whether an interrupted job is re-queued automatically
AutoRequeue(job, cfg) ==
    /\ cfg.auto_requeue_interrupted
    /\ job.restart_requeues < 1
    /\ job.attempts <= cfg.retry_max

\* A recovery that looks at running jobs only
RecoverJobRunningOnly(s, job_id, cfg, t) ==
    IF s.jobs[job_id].status # "running" THEN s
    ELSE LET s1 == State([s.jobs EXCEPT ![job_id].status = "interrupted",
                                        ![job_id].error_code = "restart_interrupted"],
                         s.queue)
         IN  IF AutoRequeue(s1.jobs[job_id], cfg)
             THEN QueueJobLocked(
                      State([s1.jobs EXCEPT ![job_id].restart_requeues = @ + 1], s1.queue),
                      job_id, 0, t)
             ELSE s1

\* _recover_after_restart: what it does to one job
RecoverJob(s, job_id, cfg, t) ==
    IF s.jobs[job_id].status \notin {"running", "cancel_requested"} THEN s
    ELSE LET s1 == State([s.jobs EXCEPT ![job_id].status = "interrupted",
                                        ![job_id].error_code = "restart_interrupted"],
                         s.queue)
         IN  IF AutoRequeue(s1.jobs[job_id], cfg)
             THEN QueueJobLocked(
                      State([s1.jobs EXCEPT ![job_id].restart_requeues = @ + 1], s1.queue),
                      job_id, 0, t)
             ELSE s1

\* _recover_after_restart: the loop over the jobs dict (in id order)
RECURSIVE RecoverAll(_, _, _, _)
RecoverAll(s, ids, cfg, t) ==
    IF ids = {} THEN s
    ELSE LET job_id == MinOf(ids)
         IN  RecoverAll(RecoverJob(s, job_id, cfg, t), ids \ {job_id}, cfg, t)

\* The process exits and a new engine is constructed over the same files:
\* _load_state, _recover_after_restart, _start_workers.
Restart ==
    LET s0 == LoadState(snapshot)
        s1 == RecoverAll(s0, DOMAIN s0.jobs, settings, now)
    IN  \E s2 \in PruneHistoryLocked(s1, settings, now) :
          /\ jobs' = s2.jobs
          /\ queue' = s2.queue
          /\ snapshot' = s2
          /\ pc' = [w \in Workers |-> "idle"]
          /\ cur' = [w \in Workers |-> NoJob]
          /\ msg' = [w \in Workers |-> <<>>]
          /\ applyResult' = [w \in Workers |-> "None"]
          /\ target' = [w \in Workers |-> NoTarget]
          /\ phCalls' = [w \in Workers |-> <<>>]
          /\ cancelEarly' = {}
          /\ hiConc' = settings.max_concurrent_jobs
          /\ UNCHANGED <<settings, now, nextId, sideVars, audio, noteVars, cleanupCalls>>

\* ------------------------------------------------------------------ environment
\* SettingsService.update while the engine runs, with a patch that sets
\* max_concurrent_jobs
UpdateSettings(n) ==
    /\ n # settings.max_concurrent_jobs
    /\ settings' = [settings EXCEPT !.max_concurrent_jobs = n]
    /\ hiConc' = IF n > hiConc THEN n ELSE hiConc
    /\ UNCHANGED <<engineVars, now, nextId, sideVars, audio, noteVars, workerVars,
                   cleanupCalls, cancelEarly>>

\* NoteService.update_note by the user with a content that lacks the marker
UserRemovesMarker(marker_token) ==
    /\ noteLive /\ noteFile
    /\ marker_token \in content
    /\ content' = content \ {marker_token}
    /\ UNCHANGED <<engineVars, settings, now, nextId, sideVars, audio, noteLive, noteFile, workerVars,
                   cleanupCalls, cancelEarly, hiConc>>

\* NoteService.delete_note, first half: the file is deleted
DeleteNoteFile ==
    /\ noteLive /\ noteFile
    /\ noteFile' = FALSE
    /\ content' = {}
    /\ UNCHANGED <<engineVars, settings, now, nextId, sideVars, audio, noteLive, workerVars,
                   cleanupCalls, cancelEarly, hiConc>>

\* NoteService.delete_note, second half: the index record is tombstoned
DeleteNoteTombstone ==
    /\ noteLive /\ ~noteFile
    /\ noteLive' = FALSE
    /\ UNCHANGED <<engineVars, settings, now, nextId, sideVars, audio, noteFile, content, workerVars,
                   cleanupCalls, cancelEarly, hiConc>>

Tick ==
    /\ now < MaxTime
    /\ now' = now + 1
    /\ UNCHANGED <<engineVars, settings, nextId, sideVars, audio, noteVars, workerVars,
                   cleanupCalls, cancelEarly, hiConc>>

\* Steps of the worker threads
WorkerStep ==
    \/ \E w \in Workers : WorkerLoop(w)
    \/ \E w \in Workers : RunStart(w)
    \/ \E w \in Workers : TranscribeReturns(w)
    \/ \E w \in Workers, m \in TranscriberErrors : TranscribeRaises(w, m)
    \/ \E w \in Workers : ApplyMarker(w)
    \/ \E w \in Workers : Finish(w)
    \/ \E w \in Workers : Cleanup(w)
    \/ \E w \in Workers : FailApply(w)
    \/ \E w \in Workers : FailFinish(w)

\* Calls of the engine's API
ApiStep ==
    \/ \E n \in NoteIds \cup UnknownNoteIds : CreateJob(n, FreshToken(nextId))
    \/ \E j \in JobIds : CancelJob(j)
    \/ \E j \in JobIds : ResumeJob(j)
    \/ ResumeInterrupted

\* The rest of the system
EnvStep ==
    \/ \E n \in 1..WorkerSlots : UpdateSettings(n)
    \/ \E t \in Tokens : UserRemovesMarker(t)
    \/ DeleteNoteFile
    \/ DeleteNoteTombstone

\* Spec: the engine over any number of process lives.  All of it happens
\* within one tick of the clock, and a retry delay is shorter than a tick.
Init == InitWith(SettingsWith(0))

Next == WorkerStep \/ ApiStep \/ EnvStep \/ Restart

Spec == Init /\ [][Next]_vars

\* SpecTimed: one life of the process (no restart) with the clock advancing
\* and retry delays of whole ticks.
InitTimed == InitWith(SettingsWith(1))

NextTimed == WorkerStep \/ ApiStep \/ EnvStep \/ Tick

SpecTimed == InitTimed /\ [][NextTimed]_vars

\* SpecBackoff: SpecTimed with a retry_max that lets the second attempt of a
\* job be retried as well, so that the delay doubles.
InitBackoff == InitWith({[cfg EXCEPT !.retry_max = MaxAttempts] : cfg \in SettingsWith(1)})

SpecBackoff == InitBackoff /\ [][NextTimed]_vars

\* The timestamps of the jobs seen from an origin one tick later (times before
\* the origin count as the origin: every comparison with `now` at MaxTime
\* stays the same)
Rebased(js) ==
    LET Earlier(t) == IF t > 0 THEN t - 1 ELSE 0
    IN
    [j \in DOMAIN js |->
        [js[j] EXCEPT !.available_at = Earlier(@),
                      !.completed_at = IF js[j].status \in TERMINAL_STATUSES
                                       THEN Earlier(@) ELSE @]]

\* The clock of _now_ts never stops.  Up to MaxTime it is counted; from then
\* on a tick moves the origin of the time axis instead, so that `now` stays at
\* MaxTime and every stored timestamp is one tick earlier.
Advance ==
    /\ IF now < MaxTime
       THEN now' = now + 1 /\ UNCHANGED <<jobs, snapshot>>
       ELSE /\ now' = now
            /\ jobs' = Rebased(jobs)
            /\ snapshot' = State(Rebased(snapshot.jobs), snapshot.queue)
    /\ UNCHANGED <<queue, settings, nextId, sideVars, audio, noteVars, workerVars,
                   cleanupCalls, cancelEarly, hiConc>>

\* The steps of one worker thread
WorkerThread(w) ==
    \/ WorkerLoop(w)
    \/ RunStart(w)
    \/ TranscribeReturns(w)
    \/ \E m \in TranscriberErrors : TranscribeRaises(w, m)
    \/ ApplyMarker(w)
    \/ Finish(w)
    \/ Cleanup(w)
    \/ FailApply(w)
    \/ FailFinish(w)

\* SpecFair: one life of the process in which no job is cancelled and the
\* settings stay as they are.  Jobs are created, the note changes, the clock
\* advances for ever and every worker thread that can take a step eventually
\* takes one (each call of the Transcriber and of replace_marker returns or
\* raises).
NextFair ==
    \/ \E w \in Workers : WorkerThread(w)
    \/ \E n \in NoteIds \cup UnknownNoteIds : CreateJob(n, FreshToken(nextId))
    \/ \E t \in Tokens : UserRemovesMarker(t)
    \/ DeleteNoteFile
    \/ DeleteNoteTombstone
    \/ Advance

SpecFair ==
    /\ InitTimed
    /\ [][NextFair]_vars
    /\ WF_vars(Advance)
    /\ \A w \in Workers : WF_vars(WorkerThread(w))

\* SpecRecovery: as Spec, started with auto_requeue_interrupted on or off and
\* with retry_max below or at the number of leases explored.  Every worker is
\* eligible at the start; UpdateSettings lowers max_concurrent_jobs later.
InitRecovery ==
    InitWith({cfg \in SettingsWith(0) \cup SettingsNoRequeue \cup SettingsPatient :
                 cfg.max_concurrent_jobs = WorkerSlots})

SpecRecovery == InitRecovery /\ [][Next]_vars

\* SpecNoRetry: Spec with retry_max = 0, so that the second lease of a job is
\* already one more than the retries allow.
InitNoRetry == InitWith({[cfg EXCEPT !.retry_max = 0] : cfg \in SettingsWith(0)})

SpecNoRetry == InitNoRetry /\ [][Next]_vars

\* SpecHttp: uploads arrive through POST /jobs while the workers run, jobs are
\* cancelled and the note is deleted, and the process restarts between two
\* requests; max_queued_jobs is 1 or 2.
SettingsQueue ==
    {[cfg EXCEPT !.max_queued_jobs = n] : cfg \in SettingsWith(0), n \in 1..MaxJobs}

HttpStep ==
    \/ \E n \in NoteIds \cup UnknownNoteIds \cup {""} : HttpPost(n)
    \/ HttpCreate
    \/ HttpExcept

InitHttp == InitWith(SettingsQueue)

NextHttp ==
    \/ HttpStep
    \/ WorkerStep
    \/ \E j \in JobIds : CancelJob(j)
    \/ DeleteNoteFile
    \/ DeleteNoteTombstone
    \/ (http.pc = "idle" /\ Restart)

SpecHttp == InitHttp /\ [][NextHttp]_vars

\* The note index on its own: every call is atomic under the index lock.
\* update_path whose target is not the path of another live record
TargetFree(note_id, new_path) ==
    \A other \in DOMAIN notes \ {note_id} :
        notes[other].deleted \/ notes[other].path # NormalizePath(new_path)

EnsureOrDelete ==
    \/ \E path \in RawPaths : EnsurePath(path)
    \/ \E note_id \in NoteKeys : MarkDeletedById(note_id)
    \/ \E path \in RawPaths : MarkDeletedByPath(path)

\* SpecIndexCalls: ensure_path, update_path and mark_deleted on any argument.
NextIndexCalls ==
    \/ EnsureOrDelete /\ UNCHANGED <<engineAll, svcVars>>
    \/ (\E note_id \in NoteKeys, path \in RawPaths : UpdatePath(note_id, path))
           /\ UNCHANGED <<engineAll, svcVars>>

SpecIndexCalls == Init /\ [][NextIndexCalls]_vars

\* SpecIndexSync: the same with sync_paths and increment_revision, and update_path
\* only to targets no other live record holds.
NextIndexSync ==
    \/ EnsureOrDelete /\ UNCHANGED <<engineAll, svcVars>>
    \/ (\E note_id \in NoteKeys, path \in RawPaths :
            TargetFree(note_id, path) /\ UpdatePath(note_id, path)) /\ UNCHANGED <<engineAll, svcVars>>
    \/ (\E current_paths \in SUBSET RawPaths : SyncPaths(current_paths))
           /\ UNCHANGED <<engineAll, svcVars>>
    \/ (\E note_id \in NoteKeys : IncrementRevision(note_id)) /\ UNCHANGED <<engineAll, svcVars>>

SpecIndexSync == Init /\ [][NextIndexSync]_vars

\* The note service.  In SpecNotes one thread makes the calls, one after
\* another.
NextNotes ==
    \E t \in {1} :
        \/ UpdateNote(t)
        \/ ReplaceMarker(t)
        \/ DeleteNote(t)
        \/ RenameNote(t)
        \/ CreateNote(t)
        \/ \E path \in NotePaths : GetNote(t, path)
        \/ SyncIndex(t)

SpecNotes == Init /\ [][NextNotes]_vars

\* In SpecWriters the threads create and read notes and call update_note and
\* replace_marker, and their steps interleave.
NextWriters ==
    \E t \in Threads :
        \/ UpdateNote(t)
        \/ ReplaceMarker(t)
        \/ CreateNote(t)
        \/ \E path \in NotePaths : GetNote(t, path)

SpecWriters == Init /\ [][NextWriters]_vars

\* SpecMarkers: one thread creates a note whose content spells the token in
\* one of the ways of MarkerTexts, replaces the marker, reads and deletes.
NextMarkers ==
    \E t \in {1} :
        \/ \E text \in MarkerTexts : CreateNoteBegin(t, PathA, text)
        \/ CreateNoteIndex(t)
        \/ ReplaceMarker(t)
        \/ DeleteNote(t)
        \/ \E path \in NotePaths : GetNote(t, path)

SpecMarkers == Init /\ [][NextMarkers]_vars

\* Two jobs of one note: each has its own marker token and its own transcript
Splices ==
    <<[marker_token |-> Marker, replacement_text |-> Transcript],
      [marker_token |-> <<"[", "[", "n", "]", "]">>, replacement_text |-> <<"u">>]>>

\* SpecSplices: a note holding both markers is created, and the threads call
\* replace_marker for it with either token; their steps interleave.
NextSplices ==
    \E t \in Threads :
        \/ CreateNoteBegin(t, PathA, Splices[1].marker_token \o Splices[2].marker_token)
        \/ CreateNoteIndex(t)
        \/ \E note_id \in NoteKeys, k \in DOMAIN Splices :
              ReplaceMarkerBegin(t, note_id, Splices[k].marker_token,
                                 Splices[k].replacement_text)
        \/ ReplaceMarkerRead(t)
        \/ ReplaceMarkerStore(t)
        \/ ReplaceMarkerCommit(t)
        \/ GetNote(t, PathA)

SpecSplices == Init /\ [][NextSplices]_vars

\* ------------------------------------------------------------------ locks
\* What a worker does with the locks in one iteration of _worker_loop whose
\* run succeeds: the lease (the scan reads the settings), the first critical
\* section of _run_job, transcribe_audio under the transcribe lock of the
\* whisper service, the second critical section, replace_marker (write lock;
\* get_by_id and increment_revision take the index lock), and the third
\* critical section (resolve_note_path takes the index lock).
RunJobUnderLock ==
    <<<<"acquire", "engine">>, <<"acquire", "settings">>, <<"release", "settings">>,
      <<"release", "engine">>,
      <<"acquire", "engine">>,
      <<"acquire", "transcribe">>, <<"call", "transcribe_audio">>, <<"release", "transcribe">>,
      <<"acquire", "write">>, <<"acquire", "index">>, <<"release", "index">>,
      <<"call", "write_note">>, <<"acquire", "index">>, <<"release", "index">>,
      <<"release", "write">>,
      <<"acquire", "index">>, <<"release", "index">>, <<"release", "engine">>>>

RunJob ==
    <<<<"acquire", "engine">>, <<"acquire", "settings">>, <<"release", "settings">>,
      <<"release", "engine">>,
      <<"acquire", "engine">>, <<"release", "engine">>,
      <<"acquire", "transcribe">>, <<"call", "transcribe_audio">>, <<"release", "transcribe">>,
      <<"acquire", "engine">>, <<"release", "engine">>,
      <<"acquire", "write">>, <<"acquire", "index">>, <<"release", "index">>,
      <<"call", "write_note">>, <<"acquire", "index">>, <<"release", "index">>,
      <<"release", "write">>,
      <<"acquire", "engine">>, <<"acquire", "index">>, <<"release", "index">>,
      <<"release", "engine">>>>

\* The same for the other callers.  run_job_fails is a run whose Transcriber
\* call raises a permanent error: exception handler, replace_marker with the
\* failure placeholder, last critical section.  Every API call of the engine
\* serializes the job under the engine lock, which reads the index.
Programs ==
    [run_job |-> RunJob,
     run_job_fails |->
        <<<<"acquire", "engine">>, <<"acquire", "settings">>, <<"release", "settings">>,
          <<"release", "engine">>,
          <<"acquire", "engine">>, <<"release", "engine">>,
          <<"acquire", "transcribe">>, <<"call", "transcribe_audio">>,
          <<"release", "transcribe">>,
          <<"acquire", "engine">>, <<"acquire", "settings">>, <<"release", "settings">>,
          <<"release", "engine">>,
          <<"acquire", "write">>, <<"acquire", "index">>, <<"release", "index">>,
          <<"call", "write_note">>, <<"acquire", "index">>, <<"release", "index">>,
          <<"release", "write">>,
          <<"acquire", "engine">>, <<"release", "engine">>>>,
     create_job |->
        <<<<"acquire", "engine">>, <<"acquire", "settings">>, <<"release", "settings">>,
          <<"acquire", "index">>, <<"release", "index">>,
          <<"acquire", "settings">>, <<"release", "settings">>,
          <<"acquire", "index">>, <<"release", "index">>, <<"release", "engine">>>>,
     cancel_job |->
        <<<<"acquire", "engine">>, <<"acquire", "index">>, <<"release", "index">>,
          <<"release", "engine">>>>,
     get_job |->
        <<<<"acquire", "engine">>, <<"acquire", "index">>, <<"release", "index">>,
          <<"release", "engine">>>>,
     update_note |->
        <<<<"acquire", "write">>, <<"acquire", "index">>, <<"release", "index">>,
          <<"call", "write_note">>, <<"acquire", "index">>, <<"release", "index">>,
          <<"acquire", "index">>, <<"release", "index">>,
          <<"acquire", "index">>, <<"release", "index">>, <<"release", "write">>>>,
     delete_note |->
        <<<<"acquire", "index">>, <<"release", "index">>, <<"call", "delete_note">>,
          <<"acquire", "index">>, <<"release", "index">>>>,
     update_settings |->
        <<<<"acquire", "settings">>, <<"release", "settings">>>>]

\* A thread starts one of the calls
LockBegin(t, op) ==
    /\ thr[t].pc = "idle"
    /\ At(t, "locks", [op |-> op, at |-> 1, held |-> <<>>])
    /\ UNCHANGED <<indexVars, files, writeLock, engineAll>>

\* The thread executes its next instruction.  threading.RLock: `acquire`
\* waits while another thread holds the lock and nests in the holder.
LockStep(t) ==
    /\ thr[t].pc = "locks"
    /\ LET loc == thr[t].loc
           program == Programs[loc.op]
           instruction == program[loc.at]
           lock == instruction[2]
           held_elsewhere == \E u \in Threads \ {t} :
                                /\ thr[u].pc = "locks"
                                /\ \E i \in 1..Len(thr[u].loc.held) : thr[u].loc.held[i] = lock
           held == IF instruction[1] = "acquire" THEN Append(loc.held, lock)
                   ELSE IF instruction[1] = "release" THEN SubSeq(loc.held, 1, Len(loc.held) - 1)
                   ELSE loc.held
       IN  /\ instruction[1] = "acquire" => ~held_elsewhere
           /\ instruction[1] = "release" => loc.held[Len(loc.held)] = lock
           /\ IF loc.at = Len(program)
              THEN Done(t, Outcome(loc.op, "ok", 0, 0, 0))
              ELSE At(t, "locks", [loc EXCEPT !.at = @ + 1, !.held = held])
    /\ UNCHANGED <<indexVars, files, writeLock, engineAll>>

\* SpecLocks: the threads make these calls, each acquiring and releasing the
\* locks in the order of the code.
NextLocks ==
    \E t \in Threads :
        \/ \E op \in DOMAIN Programs : LockBegin(t, op)
        \/ LockStep(t)

SpecLocks == Init /\ [][NextLocks]_vars

\* SpecRelocate: one note is created at PathA with the marker in its content;
\* the threads rename or move it to PathDB while its file is at PathA and
\* call replace_marker for note ids, and their steps interleave.
NextRelocate ==
    \E t \in Threads :
        \/ files = <<>> /\ notes = <<>> /\ CreateNoteBegin(t, PathA, Marker \o <<"x">>)
        \/ CreateNoteIndex(t)
        \/ ReplaceMarker(t)
        \/ \E op \in {"rename_note", "move_note"} :
              PathA \in DOMAIN files /\ RenameNoteBegin(t, op, PathA, PathDB)
        \/ RenameNoteFile(t)
        \/ RenameNoteIndex(t)

SpecRelocate == Init /\ [][NextRelocate]_vars

\* SpecDeleteRace: one note is created at PathA with the marker in its
\* content; the threads call replace_marker, update_note and delete_note, and
\* their steps interleave.  The note is created once: after a delete no call
\* creates it again on purpose.
NextDeleteRace ==
    \E t \in Threads :
        \/ files = <<>> /\ notes = <<>> /\ CreateNoteBegin(t, PathA, Marker \o <<"x">>)
        \/ CreateNoteIndex(t)
        \/ ReplaceMarker(t)
        \/ UpdateNote(t)
        \/ DeleteNote(t)

SpecDeleteRace == Init /\ [][NextDeleteRace]_vars

\* ================================================================== properties
RunningCount(js) == Cardinality({j \in DOMAIN js : js[j].status = "running"})

\* The workers that are inside _run_job for a job
Holders(job_id) == {w \in Workers : cur[w] = job_id /\ pc[w] # "idle"}

C2_TerminalAudioAbsent ==
    \A j \in DOMAIN jobs : jobs[j].status \in TERMINAL_STATUSES => j \notin audio

\* ------------------------------------------------------------------ C3
\* C3: a job with a terminal status keeps that status in every step; the only
\* other thing a step does to it is to remove it (history pruning).
C3_TerminalIsFinal ==
    [][\A j \in DOMAIN jobs :
          jobs[j].status \in TERMINAL_STATUSES =>
              (j \notin DOMAIN jobs' \/ jobs'[j].status = jobs[j].status)]_vars

\* Every id has been given out and one job is left, terminal: a pruning run
\* has removed the other terminal job and has left this one as it was.
C3_Witness ==
    /\ nextId > MaxJobs
    /\ \E j \in DOMAIN jobs : DOMAIN jobs = {j} /\ jobs[j].status = "completed"

\* ------------------------------------------------------------------ C4
\* C4: between critical sections, a job id is in the ready-queue if and only
\* if the job exists with status queued, and no id is in the queue twice.
C4_QueueIffQueued ==
    /\ \A j \in JobIds :
          InQueue(queue, j) <=> (j \in DOMAIN jobs /\ jobs[j].status = "queued")
    /\ \A i, k \in 1..Len(queue) : queue[i] = queue[k] => i = k

\* Two jobs wait in the queue, the first of them behind the second after a
\* run of its own (a retry or a recovery has queued it again).
C4_Witness ==
    /\ Len(queue) = 2
    /\ queue[1] > queue[2]
    /\ jobs[queue[2]].attempts > 0

\* ------------------------------------------------------------------ C5
\* C5 as stated: every job whose status is running or cancel_requested is held
\* by exactly one worker thread that is executing its run.
C5_HeldByOneWorker ==
    \A j \in DOMAIN jobs :
        jobs[j].status \in {"running", "cancel_requested"} => Cardinality(Holders(j)) = 1

\* ------------------------------------------------------------------ C6
\* C6 as stated: once cancel_job has been called on a leased job before the
\* worker's post-transcription checkpoint, no step makes a replace_marker call
\* for the job, leases it again or completes it.
C6_CancelBeforeApply ==
    [][\A j \in cancelEarly \cap DOMAIN jobs :
          /\ \A w \in Workers :
                (cur[w] = j /\ pc[w] \in {"apply", "failapply"}) => pc'[w] = pc[w]
          /\ j \in DOMAIN jobs' => /\ jobs'[j].attempts = jobs[j].attempts
                                   /\ jobs'[j].status # "completed"]_vars

\* ------------------------------------------------------------------ C7
\* C7 as stated: when the first step of a run finds its job in
\* cancel_requested (cancel_job came after the lease), that step makes the job
\* cancelled, deletes its temp audio and persists the snapshot.
C7_CancelSeenBeforeStart ==
    [][\A w \in Workers :
          (/\ pc[w] = "leased"
           /\ pc'[w] # "leased"
           /\ cur[w] \in DOMAIN jobs
           /\ jobs[cur[w]].status = "cancel_requested")
          => /\ cur[w] \in DOMAIN jobs'
             /\ jobs'[cur[w]].status = "cancelled"
             /\ cur[w] \notin audio'
             /\ snapshot' = State(jobs', queue')]_vars

\* ------------------------------------------------------------------ C8
\* The step in which worker w leaves a failed run by queueing its job again
RetryStep(w) ==
    /\ pc[w] \in {"transcribe", "apply"}
    /\ pc'[w] = "idle"
    /\ cur[w] \in DOMAIN jobs'
    /\ jobs'[cur[w]].status = "queued"

\* C8: in one life of the process, a retry step leaves the temp audio on disk
\* and invokes no cleanup; the cleanup of a job is never invoked before the job
\* is terminal nor more than once, and it has been invoked exactly once when a
\* terminal job is no longer held by a worker.
C8_AudioKeptUntilTerminal ==
    [][/\ \A w \in Workers :
             RetryStep(w) => /\ audio' = audio
                             /\ cleanupCalls' = cleanupCalls
                             /\ cur[w] \in audio'
       /\ \A j \in DOMAIN jobs' :
             /\ cleanupCalls'[j] <= 1
             /\ cleanupCalls'[j] = 1 => jobs'[j].status \in TERMINAL_STATUSES
             /\ (jobs'[j].status \in TERMINAL_STATUSES /\ \A w \in Workers : cur'[w] # j)
                    => (cleanupCalls'[j] = 1 /\ j \notin audio')]_vars

\* A job has completed in its second attempt and its audio was cleaned up once
C8_Witness ==
    \E j \in DOMAIN jobs :
        /\ jobs[j].status = "completed"
        /\ jobs[j].attempts = 2
        /\ cleanupCalls[j] = 1
        /\ j \notin audio
        /\ \A w \in Workers : cur[w] # j

\* ------------------------------------------------------------------ C9
IsSpace(c) == c \in {" ", "\t", "\n", "\r"}

\* The text is one line of words with single spaces between them
SingleSpaced(text) ==
    /\ \A i \in 1..Len(text) : IsSpace(text[i]) => text[i] = " "
    /\ \A i \in 1..(Len(text) - 1) : ~(text[i] = " " /\ text[i + 1] = " ")
    /\ text # <<>> => (text[1] # " " /\ text[Len(text)] # " ")

\* The characters of the text that are not whitespace
Letters(text) == SelectSeq(text, LAMBDA c : ~IsSpace(c))

\* C9: when the failure handler of a run ends (the error was not retried), it
\* has called replace_marker exactly once, for the job's note_id and
\* marker_token and with "[Transcription failed: <message>]", the message on
\* one line; whatever the call did, the step leaves the job failed with
\* error_code transcription_error, its audio deleted and the snapshot persisted.
C9_FailureHandler ==
    [][\A w \in Workers :
          (FailFinish(w) /\ cur[w] \in DOMAIN jobs)
          => LET j == cur[w]
             IN  /\ Len(phCalls[w]) = 1
                 /\ phCalls[w][1].note_id = jobs[j].note_id
                 /\ phCalls[w][1].marker_token = jobs[j].marker_token
                 /\ phCalls[w][1].replacement_text.prefix = "[Transcription failed: "
                 /\ phCalls[w][1].replacement_text.suffix = "]"
                 /\ SingleSpaced(phCalls[w][1].replacement_text.body)
                 /\ Letters(phCalls[w][1].replacement_text.body) = Letters(msg[w])
                 /\ ~ShouldRetry(msg[w], jobs[j].attempts, settings)
                 /\ jobs'[j].status = "failed"
                 /\ jobs'[j].error_code = "transcription_error"
                 /\ j \notin audio'
                 /\ snapshot' = State(jobs', queue')]_vars

\* A job has failed in its second attempt with transcription_error while the
\* note was there: its audio is gone, cleaned up once, and the snapshot agrees
C9_Witness ==
    \E j \in DOMAIN jobs :
        /\ jobs[j].status = "failed"
        /\ jobs[j].error_code = "transcription_error"
        /\ jobs[j].attempts = 2
        /\ noteLive /\ noteFile
        /\ jobs[j].marker_token \notin content
        /\ j \notin audio
        /\ cleanupCalls[j] = 1
        /\ j \in DOMAIN snapshot.jobs
        /\ snapshot.jobs[j].status = "failed"

\* ------------------------------------------------------------------ C10
\* C10: when a restart has finished its recovery, no job has status running or
\* cancel_requested: every job the loaded snapshot showed in one of them is
\* interrupted with error_code restart_interrupted or is queued again.
C10_RecoveredAfterRestart ==
    [][Restart =>
          /\ \A j \in DOMAIN jobs' : jobs'[j].status \notin {"running", "cancel_requested"}
          /\ \A j \in DOMAIN snapshot.jobs :
                snapshot.jobs[j].status \in {"running", "cancel_requested"} =>
                    /\ j \in DOMAIN jobs'
                    /\ \/ /\ jobs'[j].status = "interrupted"
                          /\ jobs'[j].error_code = "restart_interrupted"
                       \/ /\ jobs'[j].status = "queued"
                          /\ InQueue(queue', j)]_vars

\* Right after a recovery: one job was left interrupted, the other is queued
\* again, and no worker has started yet
C10_Witness ==
    /\ \A w \in Workers : pc[w] = "idle"
    /\ \E j \in DOMAIN jobs : /\ jobs[j].status = "interrupted"
                              /\ jobs[j].error_code = "restart_interrupted"
    /\ \E j \in DOMAIN jobs : /\ jobs[j].status = "queued"
                              /\ jobs[j].error_code = "restart_interrupted"
                              /\ jobs[j].restart_requeues = 1

\* ------------------------------------------------------------------ C11
\* The step is a restart (the workers of the new process are all idle)
RestartStep ==
    /\ pc' = [w \in Workers |-> "idle"]
    /\ UNCHANGED <<settings, nextId, audio>>
    /\ Restart

\* C11: restart_requeues of a job is never more than 1 and changes in no step
\* but a restart; a restart re-queues a job it finds running or
\* cancel_requested exactly when auto_requeue_interrupted is on,
\* restart_requeues < 1 and attempts <= retry_max (restart_requeues becomes 1,
\* the job is queued and available at once), and otherwise leaves it
\* interrupted with restart_requeues as it was.
C11_RequeuedAtMostOnce ==
    [][/\ \A j \in DOMAIN jobs' : jobs'[j].restart_requeues <= 1
       /\ ~RestartStep => \A j \in DOMAIN jobs \cap DOMAIN jobs' :
                              jobs'[j].restart_requeues = jobs[j].restart_requeues
       /\ RestartStep =>
             \A j \in DOMAIN snapshot.jobs :
                 LET old == snapshot.jobs[j]
                 IN  old.status \in {"running", "cancel_requested"} =>
                         /\ j \in DOMAIN jobs'
                         /\ IF /\ settings.auto_requeue_interrupted
                               /\ old.restart_requeues < 1
                               /\ old.attempts <= settings.retry_max
                            THEN /\ jobs'[j].status = "queued"
                                 /\ jobs'[j].restart_requeues = 1
                                 /\ jobs'[j].available_at = now
                                 /\ InQueue(queue', j)
                            ELSE /\ jobs'[j].status = "interrupted"
                                 /\ jobs'[j].restart_requeues = old.restart_requeues
                                 /\ ~InQueue(queue', j)]_vars

\* With re-queueing on, a job that was re-queued by one restart and leased
\* again has been left interrupted by a later restart, although its attempts
\* are still within retry_max
C11_Witness ==
    /\ settings.auto_requeue_interrupted
    /\ \A w \in Workers : pc[w] = "idle"
    /\ \E j \in DOMAIN jobs : /\ jobs[j].status = "interrupted"
                              /\ jobs[j].restart_requeues = 1
                              /\ jobs[j].attempts = 2
                              /\ jobs[j].attempts <= settings.retry_max
                              /\ ~InQueue(queue, j)

\* ------------------------------------------------------------------ C12
\* C12: create_job raises "queue full" exactly when the jobs in queued,
\* running, cancel_requested or interrupted number max_queued_jobs or more, and
\* otherwise raises "note not found" exactly when the note_id is unknown or
\* tombstoned; a call that raises leaves jobs, queue, snapshot and audio files
\* as they were; after every step the non-terminal jobs number at most
\* max_queued_jobs.
C12_Admission ==
    [][/\ (http.pc = "saved" /\ http'.pc # "saved") =>
             LET full == Cardinality({j \in DOMAIN jobs : jobs[j].status \in
                             {"queued", "running", "cancel_requested", "interrupted"}})
                             >= settings.max_queued_jobs
                 known == http.note_id \in NoteIds /\ noteLive
             IN  /\ (http'.pc = "raised" /\ http'.error = "ValueError") <=> full
                 /\ (http'.pc = "raised" /\ http'.error = "FileNotFoundError")
                        <=> (~full /\ ~known)
                 /\ http'.pc = "raised" => /\ jobs' = jobs
                                           /\ queue' = queue
                                           /\ snapshot' = snapshot
                                           /\ audio' = audio
                 /\ http'.pc # "raised" => /\ DOMAIN jobs' \ DOMAIN jobs = {nextId}
                                           /\ jobs'[nextId].status = "queued"
                                           /\ snapshot' = State(jobs', queue')
       /\ Cardinality({j \in DOMAIN jobs' : jobs'[j].status \notin TERMINAL_STATUSES})
              <= settings'.max_queued_jobs]_vars

\* create_job has just raised "queue full" with max_queued_jobs = 1: one job
\* is running and the snapshot shows that job only
C12_Witness ==
    /\ http.pc = "raised"
    /\ http.error = "ValueError"
    /\ settings.max_queued_jobs = 1
    /\ \E j \in DOMAIN jobs : jobs[j].status = "running" /\ DOMAIN snapshot.jobs = {j}

\* ------------------------------------------------------------------ C13
\* C13: when create_job has raised, the request handler deletes the uploaded
\* temp audio, invoking the cleanup exactly once, touches no job's audio and
\* answers 400 for queue full and 404 for note not found; no upload that is
\* not a job's audio is on disk once a request is over.
C13_UploadCleanedOnce ==
    [][/\ (http.pc = "raised" /\ http'.pc = "idle") =>
             /\ upload /\ ~upload'
             /\ http'.cleanups = 1
             /\ audio' = audio
             /\ http.error = "ValueError" => http'.status = 400
             /\ http.error = "FileNotFoundError" => http'.status = 404
       /\ http'.pc = "idle" => ~upload']_vars

\* A request for a tombstoned note has been answered 404 and its upload is gone
C13_Witness ==
    /\ http.pc = "idle"
    /\ http.status = 404
    /\ http.note_id \in NoteIds
    /\ ~noteLive
    /\ http.cleanups = 1
    /\ ~upload

\* ------------------------------------------------------------------ C14
\* C14: when a job B is leased, every job ahead of it in the ready-queue is not
\* yet available, and every job admitted before B that is queued and available
\* (available_at <= now) has been leased before: among the eligible jobs the
\* one admitted first is leased first, whatever the workers and their polls.
C14_QueueFifo ==
    [][\A b \in DOMAIN jobs \cap DOMAIN jobs' :
          (jobs[b].status = "queued" /\ jobs'[b].status = "running") =>
              /\ \A i, k \in 1..Len(queue) :
                     (queue[k] = b /\ i < k) => jobs[queue[i]].available_at > now
              /\ \A a \in DOMAIN jobs :
                     (/\ a < b
                      /\ jobs[a].status = "queued"
                      /\ jobs[a].available_at <= now) => jobs[a].attempts > 0]_vars

\* The first job admitted has been leased while the second, admitted after it
\* and available too, still waits and a second worker is free to poll
C14_Witness ==
    /\ settings.max_concurrent_jobs = WorkerSlots
    /\ pc[0] = "idle"
    /\ \E w \in Workers : pc[w] = "leased" /\ cur[w] = 1
    /\ 1 \in DOMAIN jobs /\ jobs[1].attempts = 1
    /\ queue = <<2>>
    /\ jobs[2].attempts = 0
    /\ jobs[2].available_at <= now

\* ------------------------------------------------------------------ C15
\* C15 as stated: right after a step in which a job enters a terminal status,
\* a job is admitted or the engine recovers from a restart, the terminal jobs
\* kept number at most history_max_entries and none of them finished more
\* than history_ttl_days ago.
C15_PrunedAtEveryEvent ==
    [][(\/ \E j \in DOMAIN jobs \cap DOMAIN jobs' :
              /\ jobs[j].status \notin TERMINAL_STATUSES
              /\ jobs'[j].status \in TERMINAL_STATUSES
        \/ nextId' # nextId
        \/ Restart)
       => /\ Cardinality({j \in DOMAIN jobs' : jobs'[j].status \in TERMINAL_STATUSES})
                <= settings.history_max_entries
          /\ \A j \in DOMAIN jobs' :
                jobs'[j].status \in TERMINAL_STATUSES =>
                    ~(jobs'[j].completed_at < now' - settings.history_ttl_days)]_vars
\* ------------------------------------------------------------------ note index
LiveIds == {id \in DOMAIN notes : ~notes[id].deleted}

NormalPaths == {NormalizePath(path) : path \in RawPaths}

\* C16: after every ensure_path, update_path and mark_deleted call path_to_id
\* is the projection of notes over the non-deleted records: path_to_id[p] = id
\* if and only if record id is not deleted and has path p.
C16_PathToIdIsProjection ==
    \A path \in NormalPaths, id \in NoteKeys :
        (path \in DOMAIN pathToId /\ pathToId[path] = id)
            <=> (id \in LiveIds /\ notes[id].path = path)

\* C17: no two non-deleted records have the same path, after any sequence of
\* ensure_path, mark_deleted, sync_paths and update_path to targets that no
\* other live record holds.
C17_LivePathsUnique ==
    \A id \in LiveIds, other \in LiveIds :
        notes[id].path = notes[other].path => id = other

\* The only record of the path is a tombstone
OnlyTombstone(id, path) ==
    /\ id \in DOMAIN notes
    /\ notes[id].path = path
    /\ notes[id].deleted
    /\ \A other \in DOMAIN notes \ {id} : notes[other].path # path

\* C18: ensure_path of a path whose record was tombstoned by mark_deleted
\* returns the id of that record, revives it (deleted cleared, revision
\* preserved) and creates no second record for the path.
C18_EnsureRevivesTombstone ==
    [][\A id \in NoteKeys :
          (ixRet'.call = "ensure_path" /\ OnlyTombstone(id, ixRet'.arg))
              => /\ ixRet'.note_id = id
                 /\ DOMAIN notes' = DOMAIN notes
                 /\ ~notes'[id].deleted
                 /\ notes'[id].revision = notes[id].revision]_vars

\* ------------------------------------------------------------------ note service
\* Thread t ends a call in this step
Returns(t) == thr[t].pc # "idle" /\ thr'[t].pc = "idle"

\* This step returns a committed content mutation of the note: update_note
\* succeeded or replace_marker returned applied
Committed(id) ==
    \E t \in Threads :
        /\ Returns(t)
        /\ outcome'.note_id = id
        /\ \/ outcome'.op = "update_note" /\ outcome'.status = "ok"
           \/ outcome'.op = "replace_marker" /\ outcome'.status = "applied"

\* C19: over any sequence of service calls the revision of every note_id
\* never decreases; it grows by exactly 1 in the step that commits a content
\* mutation (a successful update_note, a replace_marker returning applied)
\* and by 0 in every other step (reads, ensure_path, rename, move, delete,
\* sync, failed update, replace_marker returning marker_missing or
\* note_deleted).
C19_RevisionCountsCommits ==
    [][\A id \in DOMAIN notes :
          /\ id \in DOMAIN notes'
          /\ notes'[id].revision =
                notes[id].revision + (IF Committed(id) THEN 1 ELSE 0)]_vars

\* An update and then a marker replacement were committed on one note, and a
\* later call that is no mutation left the revision at 3
C19_Witness ==
    /\ outcome.op \in {"rename_note", "move_note", "delete_note", "get_note", "sync_index"}
    /\ outcome.status = "ok"
    /\ outcome.note_id \in DOMAIN notes
    /\ notes[outcome.note_id].revision = 3
    /\ \E path \in DOMAIN files : Contains(files[path], Transcript)

\* C20: update_note whose expected_revision differs from the current
\* revision ends in a RevisionConflict that carries note_id,
\* expected_revision and current_revision and leaves content and revision as
\* they were; in every interleaving of update_note and replace_marker calls
\* an update writes only while the revision is still the one it expected, so
\* of two writers with the same expected revision at most one commits and a
\* spliced transcript is not overwritten by a stale update.
C20_ConflictOrFreshWrite ==
    [][\A t \in Threads :
          LET loc == thr[t].loc
              path == NormalizePath(loc.path)
          IN  /\ thr[t].pc = "update_lock" /\ thr'[t] # thr[t]
                    => /\ path \in DOMAIN pathToId'
                       /\ LET id == pathToId'[path]
                              current == notes'[id].revision
                          IN  /\ id \in DOMAIN notes => notes[id].revision = current
                              /\ IF loc.revision # current
                                 THEN /\ thr'[t].pc = "idle"
                                      /\ outcome' = Outcome("update_note", "revision_conflict",
                                                            id, loc.revision, current)
                                      /\ files' = files
                                 ELSE thr'[t].pc = "update_write"
              /\ thr[t].pc = "update_write" /\ thr'[t] # thr[t]
                    => /\ notes[loc.note_id].revision = loc.revision
                       /\ notes' = notes
              /\ thr[t].pc = "update_commit" /\ thr'[t] # thr[t]
                    => /\ notes[loc.note_id].revision = loc.revision
                       /\ notes'[loc.note_id].revision = loc.revision + 1
                       /\ files'[loc.path] = loc.text
                       /\ outcome' = Outcome("update_note", "ok", loc.note_id,
                                             loc.revision, loc.revision + 1)]_vars

\* A stale update (expected 1, current 2) was refused after replace_marker
\* had spliced the transcript, and the transcript is still in the note
C20_Witness ==
    /\ outcome = Outcome("update_note", "revision_conflict", outcome.note_id, 1, 2)
    /\ outcome.note_id \in DOMAIN notes
    /\ notes[outcome.note_id].path \in DOMAIN files
    /\ Contains(files[notes[outcome.note_id].path], Transcript)
    /\ \E t \in Threads : thr[t].pc # "idle"

\* ------------------------------------------------------------------ replace_marker
\* The spellings of the token [[m]] that replace_marker accepts, in the order
\* in which it tries them
Spellings ==
    <<Marker,
      <<"\\", "[", "\\", "[", "m", "]", "]">>,
      <<"\\", "[", "\\", "[", "m", "\\", "]", "\\", "]">>>>

\* The needle occurs in the text at position i
OccursAt(text, needle, i) ==
    /\ i + Len(needle) - 1 <= Len(text)
    /\ \A k \in 1..Len(needle) : text[i + k - 1] = needle[k]

Occurs(text, needle) == \E i \in 1..Len(text) : OccursAt(text, needle, i)

\* `after` is `before` with the first occurrence of the needle replaced by the
\* replacement and every other character kept
SplicedFirst(before, after, needle, replacement) ==
    \E i \in 1..Len(before) :
        /\ OccursAt(before, needle, i)
        /\ \A k \in 1..(i - 1) : ~OccursAt(before, needle, k)
        /\ after = SubSeq(before, 1, i - 1) \o replacement
                       \o SubSeq(before, i + Len(needle), Len(before))

\* Thread t takes a step from this position of its call
StepsFrom(t, label) == thr[t].pc = label /\ thr'[t] # thr[t]

\* C21: replace_marker on a live note whose content holds a spelling of the
\* token goes on to write, replaces the first occurrence of the first spelling
\* that matches by the replacement text and keeps every other character,
\* returns applied and raises the revision by exactly 1.
C21_FirstSpellingSpliced ==
    [][\A t \in Threads :
          LET loc == thr[t].loc
              before == files[loc.path]
              matching == {n \in 1..Len(Spellings) : Occurs(before, Spellings[n])}
          IN  /\ StepsFrom(t, "replace_read") /\ matching # {}
                    => thr'[t].pc = "replace_write"
              /\ StepsFrom(t, "replace_write")
                    => /\ matching # {}
                       /\ \E n \in matching :
                             /\ \A other \in matching : n <= other
                             /\ SplicedFirst(before, files'[loc.path], Spellings[n],
                                             Transcript)
                       /\ \A path \in DOMAIN files \ {loc.path} :
                             path \in DOMAIN files' /\ files'[path] = files[path]
              /\ StepsFrom(t, "replace_commit")
                    => /\ notes'[loc.note_id].revision = notes[loc.note_id].revision + 1
                       /\ outcome' = Payload("replace_marker", "applied", loc.note_id, 0,
                                             notes[loc.note_id].revision + 1,
                                             notes[loc.note_id].path)
                       /\ files' = files]_vars

\* The note held the fully escaped spelling followed by the raw one: the raw
\* spelling was replaced and the escaped one is still there
C21_Witness ==
    /\ outcome.op = "replace_marker" /\ outcome.status = "applied"
    /\ outcome.revision = 2
    /\ PathA \in DOMAIN files
    /\ files[PathA] = Spellings[3] \o Transcript

\* C22: when no spelling of the token occurs in the note, replace_marker
\* returns marker_missing with the note's current path and revision and
\* changes neither a file nor the index, at every invocation.
C22_NoMatchChangesNothing ==
    [][\A t \in Threads :
          LET loc == thr[t].loc
              id == loc.note_id
          IN  /\ StepsFrom(t, "idle") /\ thr'[t].pc = "replace_read"
                    => UNCHANGED <<files, notes, pathToId, nextNote>>
              /\ (/\ StepsFrom(t, "replace_read")
                  /\ \A n \in 1..Len(Spellings) : ~Occurs(files[loc.path], Spellings[n]))
                    => /\ thr'[t].pc = "idle"
                       /\ outcome' = Payload("replace_marker", "marker_missing", id, 0,
                                             notes[id].revision, notes[id].path)
                       /\ UNCHANGED <<files, notes, pathToId, nextNote>>]_vars

\* The marker was replaced once and a further invocation found nothing:
\* marker_missing with revision 2, the transcript in place
C22_Witness ==
    /\ outcome.op = "replace_marker" /\ outcome.status = "marker_missing"
    /\ outcome.revision = 2
    /\ outcome.note_path \in DOMAIN files
    /\ Occurs(files[outcome.note_path], Transcript)
    /\ \A t \in Threads : thr[t].pc = "idle"

\* C23: replace_marker for a note_id that is unknown or tombstoned returns
\* note_deleted without entering the protocol: no file and no index record
\* changes, the tombstone stays a tombstone; a call that goes on to read the
\* note is for a live record.
C23_DeletedNoteUntouched ==
    [][/\ (/\ thr' = thr
           /\ outcome' # outcome /\ outcome'.op = "replace_marker")
             => LET id == outcome'.note_id
                IN  /\ id \notin DOMAIN notes \/ notes[id].deleted
                    /\ outcome' = Outcome("replace_marker", "note_deleted", id, 0, 0)
                    /\ UNCHANGED <<files, notes, pathToId, nextNote, writeLock>>
       /\ \A t \in Threads :
             (thr[t].pc = "idle" /\ thr'[t].pc = "replace_read")
                => LET id == thr'[t].loc.note_id
                   IN  id \in DOMAIN notes /\ ~notes[id].deleted]_vars

\* replace_marker was refused for a record that delete_note had tombstoned
C23_Witness ==
    /\ outcome = Outcome("replace_marker", "note_deleted", outcome.note_id, 0, 0)
    /\ outcome.note_id \in DOMAIN notes
    /\ notes[outcome.note_id].deleted
    /\ notes[outcome.note_id].path \notin DOMAIN files

\* The transcripts of Splices that the text holds
Spliced(text) == {k \in DOMAIN Splices : Occurs(text, Splices[k].replacement_text)}

\* C24: replace_marker calls of several threads for one note are serialized.
\* A transcript that is in the file stays in it (no write of one call undoes
\* the splice of another), every call that returns applied returns the
\* revision it has just made, which is one more than the revision before, and
\* whenever no call holds the write lock the revision of the note is its first
\* revision plus the number of transcripts spliced: after both calls it is 2
\* higher and both transcripts are in the content.
C24_SplicesSerialized ==
    [][/\ \A k \in Spliced(IF PathA \in DOMAIN files THEN files[PathA] ELSE <<>>) :
              /\ PathA \in DOMAIN files'
              /\ Occurs(files'[PathA], Splices[k].replacement_text)
       /\ \A t \in Threads :
              (thr[t].pc = "replace_commit" /\ thr'[t].pc = "idle") =>
                  /\ outcome'.status = "applied"
                  /\ outcome'.revision = notes[outcome'.note_id].revision + 1
                  /\ outcome'.revision = notes'[outcome'.note_id].revision
       /\ (writeLock' = 0 /\ 1 \in DOMAIN notes' /\ PathA \in DOMAIN files') =>
              notes'[1].revision = 1 + Cardinality(Spliced(files'[PathA]))]_vars

\* Both calls have returned: both transcripts are in the file, neither marker
\* is, and the revision is 3
C24_Witness ==
    /\ \A t \in Threads : thr[t].pc = "idle"
    /\ outcome.op = "replace_marker" /\ outcome.status = "applied" /\ outcome.revision = 3
    /\ 1 \in DOMAIN notes /\ notes[1].revision = 3
    /\ files[PathA] = Splices[1].replacement_text \o Splices[2].replacement_text

\* C25: the apply step is location-stable under rename and move.  Once the
\* calls have returned, the only note file is at the path the index holds for
\* the note, and if a replace_marker has made a revision of the note, that
\* file contains the replacement.
C25_SpliceFollowsRename ==
    (/\ \A t \in Threads : thr[t].pc = "idle"
     /\ 1 \in DOMAIN notes
     /\ ~notes[1].deleted) =>
        /\ DOMAIN files = {notes[1].path}
        /\ notes[1].revision > 1 => Occurs(files[notes[1].path], Transcript)

\* C26: when the replace_marker call of a run has returned and the job is
\* still in the store, the third critical section makes the job completed
\* after applied, orphaned with error_code marker_missing after
\* marker_missing, and failed with error_code target_note_missing after
\* note_deleted, and in all three cases transcript_text is the transcript.
C26_StatusFromApplyResult ==
    [][\A w \in Workers :
          (pc[w] = "finish" /\ pc'[w] = "cleanup") =>
              /\ cur[w] \in DOMAIN jobs'
              /\ jobs'[cur[w]].transcript_text = Transcript
              /\ applyResult[w] = "applied" => jobs'[cur[w]].status = "completed"
              /\ applyResult[w] = "marker_missing" =>
                     /\ jobs'[cur[w]].status = "orphaned"
                     /\ jobs'[cur[w]].error_code = "marker_missing"
              /\ applyResult[w] = "note_deleted" =>
                     /\ jobs'[cur[w]].status = "failed"
                     /\ jobs'[cur[w]].error_code = "target_note_missing"
              /\ applyResult[w] \in {"applied", "marker_missing", "note_deleted"}]_vars

\* An orphaned job whose record keeps the transcript
C26_Witness ==
    \E j \in DOMAIN jobs :
        /\ jobs[j].status = "orphaned"
        /\ jobs[j].error_code = "marker_missing"
        /\ jobs[j].transcript_text = Transcript

\* C27: cancel_job of a job in a terminal status changes nothing (jobs,
\* ready-queue, snapshot and audio stay as they are).  cancel_job of a queued
\* or interrupted job takes it out of the ready-queue, makes it cancelled with
\* error_code cancelled_before_run in the same step, deletes its audio,
\* persists the change and leaves every other job alone.  A cancelled job
\* stays cancelled, and no worker leases a job that is cancelled.
C27_CancelFrame ==
    [][/\ \A j \in DOMAIN jobs :
              /\ (jobs[j].status \in {"completed", "failed", "cancelled", "orphaned"}
                    /\ CancelJob(j)) =>
                     UNCHANGED <<jobs, queue, snapshot, audio>>
              /\ (jobs[j].status \in {"queued", "interrupted"} /\ CancelJob(j)) =>
                     /\ jobs'[j].status = "cancelled"
                     /\ jobs'[j].error_code = "cancelled_before_run"
                     /\ ~InQueue(queue', j)
                     /\ j \notin audio'
                     /\ snapshot' = State(jobs', queue')
                     /\ \A other \in DOMAIN jobs \ {j} : jobs'[other] = jobs[other]
              /\ (jobs[j].status = "cancelled" /\ j \in DOMAIN jobs') =>
                     jobs'[j].status = "cancelled"
       /\ \A w \in Workers :
              (pc[w] = "idle" /\ pc'[w] = "leased") => jobs[cur'[w]].status = "queued"]_vars

\* A job that had been interrupted by a restart, or queued again after one,
\* and was then cancelled before a run
C27_Witness ==
    \E j \in DOMAIN jobs :
        /\ jobs[j].status = "cancelled"
        /\ jobs[j].error_code = "cancelled_before_run"
        /\ jobs[j].attempts > 0
        /\ ~InQueue(queue, j)
        /\ j \notin audio

\* C28: resume_job of an interrupted job makes it queued, appends it to the
\* ready-queue with available_at = now and persists the change; resume_job of
\* a job in another status changes no job, nor the queue, nor the snapshot.
\* resume_interrupted makes the interrupted jobs queued and leaves the other
\* jobs as they are, and the count it returns is the number of jobs that were
\* interrupted.
C28_ResumeFrame ==
    [][/\ \A j \in DOMAIN jobs :
              /\ (jobs[j].status = "interrupted" /\ ResumeJob(j)) =>
                     /\ jobs'[j] = [jobs[j] EXCEPT !.status = "queued", !.available_at = now]
                     /\ queue' = Append(queue, j)
                     /\ snapshot' = State(jobs', queue')
                     /\ \A other \in DOMAIN jobs \ {j} : jobs'[other] = jobs[other]
              /\ (jobs[j].status # "interrupted" /\ ResumeJob(j)) =>
                     UNCHANGED <<jobs, queue, snapshot>>
       /\ ResumeInterrupted =>
              /\ DOMAIN jobs' = DOMAIN jobs
              /\ \A j \in DOMAIN jobs :
                     jobs'[j] = IF jobs[j].status = "interrupted"
                                THEN [jobs[j] EXCEPT !.status = "queued", !.available_at = now]
                                ELSE jobs[j]
              /\ \A j \in DOMAIN jobs : jobs[j].status = "interrupted" => InQueue(queue', j)
              /\ snapshot' = State(jobs', queue')
       /\ ResumeAll(State(jobs, queue), DOMAIN jobs, now).resumed
              = Cardinality({j \in DOMAIN jobs : jobs[j].status = "interrupted"})]_vars

\* Two jobs that a second restart had left interrupted are queued again, in
\* the ready-queue, with the current time as available_at
C28_Witness ==
    /\ DOMAIN jobs = {1, 2}
    /\ \A j \in DOMAIN jobs :
           /\ jobs[j].status = "queued"
           /\ jobs[j].restart_requeues = 1
           /\ jobs[j].attempts = 2
           /\ InQueue(queue, j)
           /\ jobs[j].available_at = now

\* C29: when a run raises, the job is queued again if and only if the
\* message contains one of the needles (case-insensitive) and attempts is at
\* most retry_max; the job queued again has error_code transient_error and
\* available_at = now + retry_base_ms * 2^(attempts - 1).  A queued job keeps
\* its available_at, and a worker leases a job only when its available_at has
\* been reached.
C29_RetryIffTransient ==
    [][/\ \A w \in Workers, message \in TranscriberErrors \cup {MsgNoteNotFound} :
              (/\ pc[w] \in {"transcribe", "apply"}
               /\ pc'[w] \in {"idle", "failapply"}
               /\ cur[w] \in DOMAIN jobs
               /\ ExceptionBlock(w, message)) =>
                  IF /\ \E needle \in Needles : Contains(LowerSeq(message), needle)
                     /\ jobs[cur[w]].attempts <= settings.retry_max
                  THEN /\ jobs'[cur[w]].status = "queued"
                       /\ jobs'[cur[w]].error_code = "transient_error"
                       /\ jobs'[cur[w]].available_at =
                              now + settings.retry_base_ms * 2^(jobs[cur[w]].attempts - 1)
                       /\ InQueue(queue', cur[w])
                  ELSE /\ jobs'[cur[w]].status # "queued"
                       /\ ~InQueue(queue', cur[w])
                       /\ pc'[w] = "failapply"
       /\ \A j \in DOMAIN jobs \cap DOMAIN jobs' :
              (jobs[j].status = "queued" /\ jobs'[j].status = "queued") =>
                  jobs'[j].available_at = jobs[j].available_at
       /\ \A w \in Workers :
              (pc[w] = "idle" /\ pc'[w] = "leased") => jobs[cur'[w]].available_at <= now]_vars

\* A job whose second attempt failed transiently waits twice the base delay
C29_Witness ==
    \E j \in DOMAIN jobs :
        /\ jobs[j].status = "queued"
        /\ jobs[j].error_code = "transient_error"
        /\ jobs[j].attempts = 2
        /\ settings.retry_base_ms = 1
        /\ jobs[j].available_at = now + 2

\* C30: with a clock that advances, fairly scheduled workers, no restart and
\* no cancel_job, every job in the store eventually is completed, failed or
\* orphaned (after which it may be pruned from the store), even if every call
\* of the Transcriber raises a transient error.
C30_EveryJobTerminates ==
    \A j \in JobIds :
        (j \in DOMAIN jobs) ~>
            (j \notin DOMAIN jobs \/ jobs[j].status \in {"completed", "failed", "orphaned"})

\* A job that failed for good after its retry had failed as well
C30_Witness ==
    \E j \in DOMAIN jobs :
        /\ jobs[j].status = "failed"
        /\ jobs[j].attempts = settings.retry_max + 1
        /\ jobs[j].error_code = "transcription_error"

C32_SnapshotIsState ==
    [][/\ snapshot = State(jobs, queue)
       /\ snapshot' = State(jobs', queue')
       /\ RestartStep =>
              \A j \in DOMAIN jobs :
                  IF j \notin DOMAIN jobs'
                  THEN jobs[j].status \in {"completed", "failed", "cancelled", "orphaned"}
                  ELSE IF jobs[j].status \in {"running", "cancel_requested"}
                  THEN jobs'[j].status \in {"interrupted", "queued"}
                  ELSE jobs'[j] = jobs[j]]_vars

\* A cancel request made while the job ran is still in the record after a
\* restart has interrupted the job
C32_Witness ==
    /\ snapshot = State(jobs, queue)
    /\ \E j \in DOMAIN jobs :
           /\ jobs[j].cancel_requested
           /\ jobs[j].error_code = "restart_interrupted"

\* The locks a thread holds, and the lock it is about to acquire ("" if none)
LocksHeld(t) ==
    IF thr[t].pc # "locks" THEN {}
    ELSE {thr[t].loc.held[i] : i \in 1..Len(thr[t].loc.held)}

LockWanted(t) ==
    IF thr[t].pc # "locks" THEN ""
    ELSE IF Programs[thr[t].loc.op][thr[t].loc.at][1] # "acquire" THEN ""
    ELSE Programs[thr[t].loc.op][thr[t].loc.at][2]

\* C33: a thread that holds the engine lock holds neither the transcribe lock
\* (it is not inside the Transcriber call) nor the write lock of the note
\* service (it is not inside replace_marker), and a thread that waits for the
\* engine lock does not hold the write lock.  So while a thread is inside the
\* Transcriber call, a thread that wants the engine lock is not kept waiting
\* by it, and whenever calls are in progress some thread can take its next
\* step: there is no deadlock.
C33_NoLockAcrossCalls ==
    /\ \A t \in Threads :
           /\ "engine" \in LocksHeld(t) =>
                  /\ "transcribe" \notin LocksHeld(t)
                  /\ "write" \notin LocksHeld(t)
           /\ LockWanted(t) = "engine" => "write" \notin LocksHeld(t)
    /\ \A t, u \in Threads :
           ("transcribe" \in LocksHeld(t) /\ LockWanted(u) = "engine") =>
               "engine" \notin LocksHeld(t)
    /\ (\E t \in Threads : thr[t].pc = "locks") =>
           \E t \in Threads :
               /\ thr[t].pc = "locks"
               /\ \A u \in Threads \ {t} : LockWanted(t) \notin LocksHeld(u)

\* One thread is inside the Transcriber call while the other holds the engine
\* lock in create_job
C33_Witness ==
    \E t, u \in Threads :
        /\ thr[t].pc = "locks" /\ thr[u].pc = "locks"
        /\ thr[t].loc.op = "run_job" /\ "transcribe" \in LocksHeld(t)
        /\ Programs[thr[t].loc.op][thr[t].loc.at][2] = "transcribe_audio"
        /\ thr[u].loc.op = "create_job" /\ "engine" \in LocksHeld(u)

\* C34: after sync_paths(S) a record is non-deleted if and only if its path is
\* in S, every path in S has a record, and path_to_id is the projection of
\* notes over the non-deleted records: its keys are the paths in S and
\* path_to_id[p] = id if and only if record id is not deleted and has path p.
C34_SyncPathsPostcondition ==
    [][\A current_paths \in SUBSET RawPaths :
           (ixRet'.call = "sync_paths" /\ SyncPaths(current_paths)) =>
               LET S == {NormalizePath(path) : path \in current_paths}
               IN  /\ \A id \in DOMAIN notes' : ~notes'[id].deleted <=> notes'[id].path \in S
                   /\ \A path \in S : \E id \in DOMAIN notes' : notes'[id].path = path
                   /\ DOMAIN pathToId' = S
                   /\ \A path \in S, id \in DOMAIN notes' :
                          pathToId'[path] = id
                              <=> (~notes'[id].deleted /\ notes'[id].path = path)]_vars

\* C35: a job that is completed, orphaned or cancelled does not carry
\* error_code = transient_error in its record, whatever transient retries it
\* went through before.
C35_TransientErrorHidden ==
    \A j \in DOMAIN jobs :
        jobs[j].status \in {"completed", "orphaned", "cancelled"} =>
            jobs[j].error_code # "transient_error"

\* C36: when a worker whose index is below max_concurrent_jobs is idle and
\* some entry of the queue is a queued job with available_at <= now, the scan
\* of the queue finds the first such entry and the poll of the worker leases
\* it, also when delayed jobs stand before it;
\* the queue afterwards is the queue before without that entry, so the delayed
\* jobs that were skipped keep their positions and their available_at.
C36_DelayedJobsDoNotBlock ==
    [][\A w \in Workers :
           LET ready == {k \in 1..Len(queue) :
                            /\ queue[k] \in DOMAIN jobs
                            /\ jobs[queue[k]].status = "queued"
                            /\ jobs[queue[k]].available_at <= now}
           IN  (/\ pc[w] = "idle"
                /\ ready # {}
                /\ w < settings.max_concurrent_jobs) =>
                   LET k == CHOOSE i \in ready : \A other \in ready : i <= other
                   IN  /\ NextQueuedJobLocked(w, queue, jobs, settings, now).job_id = queue[k]
                       /\ WorkerLoop(w) =>
                               /\ pc'[w] = "leased"
                               /\ cur'[w] = queue[k]
                               /\ jobs'[queue[k]].status = "running"
                               /\ Len(queue') = Len(queue) - 1
                               /\ \A i \in 1..Len(queue') :
                                      queue'[i] = IF i < k THEN queue[i] ELSE queue[i + 1]
                               /\ \A i \in 1..(k - 1) :
                                      /\ jobs'[queue[i]].status = "queued"
                                      /\ jobs'[queue[i]].available_at = jobs[queue[i]].available_at]_vars

\* A job admitted after a retry was scheduled has been leased while the job
\* waiting for its retry delay still stands alone at the head of the queue
C36_Witness ==
    /\ 1 \in DOMAIN jobs /\ 2 \in DOMAIN jobs
    /\ queue = <<1>>
    /\ jobs[1].status = "queued"
    /\ jobs[1].attempts = 1
    /\ jobs[1].available_at > now
    /\ jobs[2].status = "running"
    /\ jobs[2].attempts = 1
    /\ \E w \in Workers : pc[w] = "leased" /\ cur[w] = 2

\* C37: pruning removes terminal jobs only.  A job that leaves the engine
\* state in a step was completed, failed, cancelled or orphaned before the
\* step; and in every state, whatever history_max_entries and
\* history_ttl_days are and however much time has passed, neither the pruning
\* of an admission nor the pruning of a recovery (after the recovery loop)
\* removes or changes a job that is queued, running, cancel_requested or
\* interrupted.
C37_OnlyTerminalPruned ==
    /\ [][\A j \in DOMAIN jobs \ DOMAIN jobs' :
              jobs[j].status \in {"completed", "failed", "cancelled", "orphaned"}]_vars
    /\ [](\A cfg \in {settings, [settings EXCEPT !.history_max_entries = 0,
                                                 !.history_ttl_days = 0]},
             t \in {now, now + MaxTime + 1} :
              LET recovered == RecoverAll(LoadState(snapshot), DOMAIN snapshot.jobs, cfg, t)
                  Kept(s) ==
                      \A s2 \in PruneHistoryLocked(s, cfg, t) :
                          \A j \in DOMAIN s.jobs :
                              s.jobs[j].status \in {"queued", "running", "cancel_requested",
                                                    "interrupted"} =>
                                  /\ j \in DOMAIN s2.jobs
                                  /\ s2.jobs[j] = s.jobs[j]
              IN  Kept(State(jobs, queue)) /\ Kept(recovered))

\* The second job is admitted two ticks after the first, which has been
\* waiting in the queue for longer than the TTL and is still there
C37_Witness ==
    /\ now = MaxTime
    /\ DOMAIN jobs = {1, 2}
    /\ jobs[1].status = "queued" /\ jobs[1].attempts = 0 /\ jobs[1].available_at = 0
    /\ jobs[2].status = "queued" /\ jobs[2].available_at = MaxTime
    /\ settings.history_ttl_days < MaxTime

\* C38: the attempts counter of a job never exceeds retry_max + 1, over
\* transient retries, restarts with auto-requeue, resume_job and
\* resume_interrupted.
C38_AttemptsBounded ==
    \A j \in DOMAIN jobs : jobs[j].attempts <= settings.retry_max + 1

\* C39: delete_note interleaved with replace_marker or update_note does not
\* resurrect the note: once the calls have returned, no file exists on disk at
\* the path of a tombstoned record.
C39_DeleteNotUndone ==
    (\A t \in Threads : thr[t].pc = "idle") =>
        \A id \in DOMAIN notes : notes[id].deleted => notes[id].path \notin DOMAIN files

====
